---- MODULE Spec2Model ----
(***************************************************************************)
(* Transcription job pipeline of audia (apps/backend): the Job record, the *)
(* Celery task process_transcription_task with its retries, the upload     *)
(* route that creates and enqueues a job, and the routes and tasks that    *)
(* write derived artifacts of a job (Spec); the same beside a second job   *)
(* that is already COMPLETED (TwoJobsSpec); the pipeline with the chat     *)
(* route (ChatSpec); the polling loops taken alone, one statement group    *)
(* per step (PollSpec); the EmbeddingsService with its index and metadata  *)
(* files, one file access per step, called by the API server and the       *)
(* worker (IndexSpec); the generation calls under their retry decorator    *)
(* (GenSpec); chunk_text with its arguments, one iteration per step        *)
(* (ChunkSpec); parse_transcription_with_diarization (ParseSpec); the      *)
(* job-scoped routes as whole requests with their answers, beside one row  *)
(* of another state each (RouteSpec); the summary routes with the          *)
(* executions of generate_summary_task, one database access per step       *)
(* (SummarySpec); and the EmbeddingsService with one call at a time        *)
(* (SeqIndexSpec).                                                         *)
(*                                                                         *)
(* Conventions.  A nullable column or optional value is a tuple of length  *)
(* 0 (None) or 1 (the value).  A text is a sequence of symbols.  A         *)
(* progress value p of the program is the integer p * Scale, so that all   *)
(* values the program computes are exact.  A timestamp is the number of    *)
(* the pipeline execution during which now() was called.                   *)
(***************************************************************************)
EXTENDS Integers, Sequences, FiniteSets, TLC

VARIABLES
    jobs,       \* the jobs table: job id -> Job row (database.py Job)
    pc,         \* position of process_transcription_task / its message
    retries,    \* self.request.retries of the pipeline task
    elapsed,    \* local variable elapsed of poll_with_progress
    exc,        \* the exception e caught by the pipeline's except clause
    parsed,     \* local variable parsed (full_text, duration_seconds)
    faiss,      \* persisted index pair per job id (embeddings.py)
    results,    \* objects under results/{job_id}/ in object storage
    sumTask,    \* generate_summary_task: message state and request.retries
    minTask,    \* generate_meeting_minutes_task: message state and retries
    poller,     \* a polling loop taken alone: position, counters, outcome
    indexFile,  \* {job_id}.index files under FAISS_PATH (embeddings.py)
    metaFile,   \* {job_id}.meta files under FAISS_PATH (embeddings.py)
    calls,      \* the EmbeddingsService call each process is executing
    speech,     \* local azure_job_id of the pipeline and the remote job it asks for
    chat,       \* the last response of the chat route and the calls it made
    gen,        \* a generation call of AzureOpenAIService under its @retry
    chunker,    \* a call of chunk_text: arguments, locals, chunks
    diar,       \* a call of parse_transcription_with_diarization
    http,       \* the last response of a job-scoped route and who asked
    summaryTasks \* the executions of generate_summary_task taken alone

\* The variables of the job pipeline, and those of the polling loop and of
\* the index files taken alone
pipelineVars == <<jobs, pc, retries, elapsed, exc, parsed, faiss, results, sumTask, minTask,
                  speech, chat>>
serviceVars == <<poller, indexFile, metaFile, calls>>
\* The variables of the pure functions and of the retried calls taken alone
toolVars == <<gen, chunker, diar>>
\* The variables of the routes and of the summary tasks taken alone
routeVars == <<http, summaryTasks>>
vars == <<pipelineVars, serviceVars, toolVars, routeVars>>

----------------------------------------------------------------------------
(* Optional values *)

None == <<>>
Some(x) == <<x>>
\* Python truthiness of an optional text: None and "" are falsy
Truthy(o) == o # None /\ o[1] # <<>>

Min(a, b) == IF a < b THEN a ELSE b

----------------------------------------------------------------------------
(* Program constants *)

\* tasks.py:42  max_retries of process_transcription
max_retries == 3
\* tasks.py:120,121  max_wait and poll_interval of poll_with_progress
max_wait == 3600
poll_interval == 15
\* tasks.py:257  max_retries of generate_summary
summary_max_retries == 2
\* tasks.py:328  max_retries of generate_meeting_minutes
minutes_max_retries == 3
\* azure_speech.py:28  stop_after_attempt(3) of create_transcription_job
create_attempts == 3
\* config.py:127,131  CHUNK_SIZE_TOKENS, CHUNK_OVERLAP_TOKENS
CHUNK_SIZE_TOKENS == 512
CHUNK_OVERLAP_TOKENS == 50

\* Progress unit: 1.0 is Scale; chosen so that 0.3 + (elapsed / max_wait) * 0.5
\* is an integer for every elapsed the loop produces.
Scale == 2 * (max_wait \div poll_interval)
P_QUEUED == 0
P_PROCESSING == Scale \div 10
P_PRESIGNED == (2 * Scale) \div 10
P_CREATED == (3 * Scale) \div 10
P_POLL_CAP == (8 * Scale) \div 10
P_DOWNLOADED == (85 * Scale) \div 100
P_STORED == (9 * Scale) \div 10
P_COMPLETED == Scale

\* tasks.py:131-132  progress = 0.3 + (elapsed / max_wait) * 0.5, capped at 0.8
PollProgress(el) == Min(P_CREATED + (el * (Scale \div 2)) \div max_wait, P_POLL_CAP)

----------------------------------------------------------------------------
(* Inputs *)

JobIds == {"J1"}

\* Parsed results the remote transcription can lead to: an empty combined
\* text, and a text naming a speaker.
SpeakerPrefix == <<"S", "p", "e", "a", "k", "e", "r", " ">>
Texts == { <<>>, SpeakerPrefix \o <<"1", ":", " ", "o", "i", ".">> }
Durations == {0, 2}

\* Texts an edit request can carry and names a rename request can carry
EditedTexts == { SpeakerPrefix \o <<"1", ":", " ", "o", "l", "a", ".">> }
\* request.speaker_names: an ordered mapping speaker id -> custom name
SpeakerMaps == { << <<"1", <<"A", "n", "a">> >> >> }

\* Remote statuses get_transcription_status can report
RemoteStatuses == {"NotStarted", "Running", "Succeeded", "Failed"}

\* str(e) of the exceptions raised by the collaborators' client libraries.
\* httpx raises its timeout exceptions with an empty message.
HttpErrors == {"", "503 Service Unavailable"}
StorageErrors == {"OCI ServiceError"}
OpenAIErrors == {"APIConnectionError"}
BrokerErrors == {"Error 111 connecting to redis"}

----------------------------------------------------------------------------
(* The Job row and the exceptions *)

\* database.py:39-70; upload.py:172-180 sets the columns given here, the
\* others take their column default (None)
NewJob == [ status |-> "QUEUED",
            progress |-> P_QUEUED,
            started_at |-> None,
            completed_at |-> None,
            error_message |-> None,
            azure_job_id |-> None,
            transcription_text |-> None,
            duration_seconds |-> None,
            edited_transcription |-> None,
            speaker_names |-> None,
            summary |-> None,
            meeting_minutes |-> None ]

NoRows == [k \in {} |-> NewJob]
NoIndexes == [k \in {} |-> [chunks |-> <<>>, ntotal |-> 0, num_chunks |-> 0]]

NoExc == [kind |-> "none", msg |-> ""]
Raised(k, m) == [kind |-> k, msg |-> m]

\* db.query(Job).filter(Job.id == job_id).first()
Found(j) == j \in DOMAIN jobs

\* now(): the running number of the pipeline execution
Now == retries + 1

\* No polling loop is running
PollIdle == [loop |-> "none", at |-> "idle", elapsed |-> 0, clock |-> 0,
             fetches |-> 0, sleeps |-> 0, status |-> "", error |-> "", out |-> ""]

\* The processes that call the EmbeddingsService singleton of their own
\* interpreter on the shared FAISS_PATH: the API server (routes chat.py,
\* transcriptions.py) and the Celery worker (tasks.py)
Callers == {"api", "worker"}

\* A process that is in no call of the service
NoCall == [op |-> "none", at |-> "idle", job |-> "", doc |-> "", top_k |-> None,
           index |-> None, meta |-> None, chunks |-> <<>>,
           writes |-> 0, embeds |-> 0, err |-> "", out |-> <<>>]

\* tasks.py:108  the pipeline execution has no azure_job_id yet and has asked
\* the speech service for no remote job
NoSpeech == [local |-> None, requested |-> None]

\* No chat request has been answered
NoChat == [code |-> 0, detail |-> "", build |-> "none", search |-> "none",
           answer |-> "none", requests |-> 0, searched |-> None]

\* No generation call is running
GenIdle == [op |-> "none", at |-> "idle", attempt |-> 0, requests |-> 0,
            slept |-> 0, log |-> <<>>, out |-> None]

\* No call of chunk_text is running
ChunkIdle == [at |-> "idle", text |-> <<>>, chars_per_chunk |-> 0, chars_overlap |-> 0,
              start |-> 0, chunks |-> <<>>, windows |-> <<>>]

\* No call of parse_transcription_with_diarization is running
ParseIdle == [at |-> "idle", input |-> <<>>, out |-> <<>>]

\* No job-scoped route has answered.  `job_id` is the id the request names,
\* `is_owner` whether there is such a job with job.user_id ==
\* current_user.id, `body` what the response tells of the job
NoHttp == [route |-> "none", job_id |-> "", is_owner |-> TRUE, code |-> 0, body |-> None]
\* A response body that tells nothing of the job
Told == [status |-> "", text |-> None, summary |-> None, minutes |-> None,
         cached |-> FALSE, chunks |-> <<>>]

\* The messages of generate_summary_task that can be in the queue or in
\* execution together (the worker runs several executions at a time)
TaskIds == {1, 2}
\* No message: nothing read, nothing generated
NoTask == [state |-> "none", retries |-> 0, job |-> ""]

----------------------------------------------------------------------------
(* upload_file *)

Init ==
    /\ jobs = NoRows
    /\ pc = "idle"
    /\ retries = 0
    /\ elapsed = 0
    /\ exc = NoExc
    /\ parsed = None
    /\ faiss = NoIndexes
    /\ results = {}
    /\ sumTask = [state |-> "idle", retries |-> 0]
    /\ minTask = [state |-> "idle", retries |-> 0]
    /\ poller = PollIdle
    /\ indexFile = [j \in JobIds |-> None]
    /\ metaFile = [j \in JobIds |-> None]
    /\ calls = [p \in Callers |-> NoCall]
    /\ speech = NoSpeech
    /\ chat = NoChat
    /\ gen = GenIdle
    /\ chunker = ChunkIdle
    /\ diar = ParseIdle
    /\ http = NoHttp
    /\ summaryTasks = [t \in TaskIds |-> NoTask]

\* upload.py:169-183  the row is added and committed as QUEUED
UploadCreate(j) ==
    /\ pc = "idle"
    /\ ~Found(j)
    /\ jobs' = (j :> NewJob) @@ jobs
    /\ pc' = "created"
    /\ UNCHANGED <<retries, elapsed, exc, parsed, faiss, results, sumTask, minTask, speech, chat, serviceVars, toolVars, routeVars>>

\* upload.py:187-202  process_transcription_task.delay, or the job is marked
\* FAILED when delay raises
UploadEnqueue(j) ==
    /\ pc = "created"
    /\ \/ /\ pc' = "queued"
          /\ UNCHANGED jobs
       \/ \E m \in BrokerErrors :
          /\ jobs' = [jobs EXCEPT ![j].status = "FAILED",
                                  ![j].error_message = Some("Erro ao enfileirar: " \o m)]
          /\ pc' = "enqueue_failed"
    /\ UNCHANGED <<retries, elapsed, exc, parsed, faiss, results, sumTask, minTask, speech, chat, serviceVars, toolVars, routeVars>>

----------------------------------------------------------------------------
(* EmbeddingsService *)

IsSpace(c) == c \in {" ", "\n", "\t"}

\* str.strip()
RECURSIVE LStrip(_)
LStrip(s) == IF s # <<>> /\ IsSpace(Head(s)) THEN LStrip(Tail(s)) ELSE s
RECURSIVE RStrip(_)
RStrip(s) == IF s # <<>> /\ IsSpace(s[Len(s)]) THEN RStrip(SubSeq(s, 1, Len(s) - 1)) ELSE s
Strip(s) == RStrip(LStrip(s))

\* s[a:b] of Python for 0 <= a
Slice(s, a, b) == SubSeq(s, a + 1, Min(b, Len(s)))

\* str.startswith at offset i (0-based)
MatchAt(s, sub, i) == i + Len(sub) <= Len(s) /\ Slice(s, i, i + Len(sub)) = sub

\* str.rfind: the greatest 0-based offset at which sub occurs, or -1
RFind(s, sub) ==
    LET hits == {i \in 0..Len(s) : MatchAt(s, sub, i)}
    IN  IF hits = {} THEN -1 ELSE CHOOSE i \in hits : \A k \in hits : k <= i

\* str.replace(old, new) for a non-empty old: leftmost, non-overlapping
RECURSIVE Replace(_, _, _)
Replace(s, old, new) ==
    IF s = <<>> THEN <<>>
    ELSE IF MatchAt(s, old, 0) THEN new \o Replace(Slice(s, Len(old), Len(s)), old, new)
    ELSE <<Head(s)>> \o Replace(Tail(s), old, new)

\* embeddings.py:59-88  the loop of chunk_text from window start `start`
RECURSIVE ChunkFrom(_, _, _, _)
ChunkFrom(text, start, chars_per_chunk, chars_overlap) ==
    IF ~(start < Len(text)) THEN <<>>
    ELSE LET end0 == start + chars_per_chunk
             chunk0 == Slice(text, start, end0)
             last_period == RFind(chunk0, <<".", " ">>)
             cut == end0 < Len(text) /\ 10 * last_period > 7 * chars_per_chunk
             chunk == IF cut THEN Slice(chunk0, 0, last_period + 1) ELSE chunk0
             end == IF cut THEN start + last_period + 1 ELSE end0
             shifted == end - chars_overlap
             next == IF shifted <= 0 THEN end ELSE shifted
         IN  <<Strip(chunk)>> \o ChunkFrom(text, next, chars_per_chunk, chars_overlap)

\* embeddings.py:35-88  chunk_text with the sizes of settings
chunk_text(text) == ChunkFrom(text, 0, CHUNK_SIZE_TOKENS * 4, CHUNK_OVERLAP_TOKENS * 4)

\* embeddings.py:134-144  the pair written by _save_index for a fresh index
BuiltIndex(chunks) == [chunks |-> chunks, ntotal |-> Len(chunks), num_chunks |-> Len(chunks)]

----------------------------------------------------------------------------
(* process_transcription_task *)

Raise(e) == /\ exc' = e
            /\ pc' = "except"

\* StartExecution taking the marks of the earlier failure off the row
StartExecution_ClearsFailure(j) ==
    /\ pc \in {"queued", "retry_wait"}
    /\ IF Found(j)
       THEN /\ jobs' = [jobs EXCEPT ![j].status = "PROCESSING",
                                    ![j].started_at = Some(Now),
                                    ![j].progress = P_PROCESSING,
                                    ![j].error_message = None,
                                    ![j].completed_at = None]
            /\ pc' = "presign"
            /\ exc' = NoExc
       ELSE /\ Raise(Raised("JobNotFound", "Job " \o j \o " não encontrado"))
            /\ UNCHANGED jobs
    /\ speech' = NoSpeech
    /\ UNCHANGED <<retries, elapsed, parsed, faiss, results, sumTask, minTask, chat, serviceVars, toolVars, routeVars>>

\* tasks.py:67-79  a worker takes the message: look the job up, mark PROCESSING
StartExecution(j) ==
    /\ pc \in {"queued", "retry_wait"}
    /\ IF Found(j)
       THEN /\ jobs' = [jobs EXCEPT ![j].status = "PROCESSING",
                                    ![j].started_at = Some(Now),
                                    ![j].progress = P_PROCESSING]
            /\ pc' = "presign"
            /\ exc' = NoExc
       ELSE /\ Raise(Raised("JobNotFound", "Job " \o j \o " não encontrado"))
            /\ UNCHANGED jobs
    /\ speech' = NoSpeech
    /\ UNCHANGED <<retries, elapsed, parsed, faiss, results, sumTask, minTask, chat, serviceVars, toolVars, routeVars>>

\* tasks.py:83-97  create_presigned_url, progress 0.2
Presign(j) ==
    /\ pc = "presign"
    /\ \/ /\ jobs' = [jobs EXCEPT ![j].progress = P_PRESIGNED]
          /\ pc' = "create"
          /\ UNCHANGED exc
       \/ \E m \in StorageErrors :
          /\ Raise(Raised("PresignError", m))
          /\ UNCHANGED jobs
    /\ UNCHANGED <<retries, elapsed, parsed, faiss, results, sumTask, minTask, speech, chat, serviceVars, toolVars, routeVars>>

\* CreateJob going on with the remote job the row already names
CreateJob_ReuseRemoteJob(j) ==
    /\ pc = "create"
    /\ \E failures \in 0..create_attempts :
        IF failures < create_attempts
        THEN /\ LET id == IF jobs[j].azure_job_id # None THEN jobs[j].azure_job_id
                                                         ELSE Some(Now)
                IN  /\ jobs' = [jobs EXCEPT ![j].azure_job_id = id,
                                            ![j].progress = P_CREATED]
                    /\ speech' = [speech EXCEPT !.local = id]
             /\ pc' = "poll"
             /\ UNCHANGED exc
        ELSE /\ Raise(Raised("CreateError", "RetryError[HTTPStatusError]"))
             /\ UNCHANGED <<jobs, speech>>
    /\ elapsed' = 0
    /\ UNCHANGED <<retries, parsed, faiss, results, sumTask, minTask, chat, serviceVars, toolVars, routeVars>>

\* tasks.py:99-111 with azure_speech.py:27-86  create_transcription_job is
\* attempted up to create_attempts times; on success the remote service has
\* made a new job, whose id is kept in the local azure_job_id and in the row
CreateJob(j) ==
    /\ pc = "create"
    /\ \E failures \in 0..create_attempts :
        IF failures < create_attempts
        THEN /\ jobs' = [jobs EXCEPT ![j].azure_job_id = Some(Now),
                                     ![j].progress = P_CREATED]
             /\ speech' = [speech EXCEPT !.local = Some(Now)]
             /\ pc' = "poll"
             /\ UNCHANGED exc
        ELSE /\ Raise(Raised("CreateError", "RetryError[HTTPStatusError]"))
             /\ UNCHANGED <<jobs, speech>>
    /\ elapsed' = 0
    /\ UNCHANGED <<retries, parsed, faiss, results, sumTask, minTask, chat, serviceVars, toolVars, routeVars>>

\* tasks.py:124-149  one iteration of the loop of poll_with_progress, up to
\* the next evaluation of the loop condition; the status is asked for the
\* remote job of the local azure_job_id
PollTick(j) ==
    /\ pc = "poll"
    /\ elapsed < max_wait
    /\ \/ \E m \in HttpErrors :
          /\ Raise(Raised("StatusError", m))
          /\ elapsed' = 0
          /\ UNCHANGED jobs
       \/ \E st \in RemoteStatuses :
          /\ jobs' = [jobs EXCEPT ![j].progress = PollProgress(elapsed)]
          /\ CASE st = "Succeeded" ->
                    /\ pc' = "download"
                    /\ elapsed' = 0
                    /\ UNCHANGED exc
               [] st = "Failed" ->
                    /\ Raise(Raised("RemoteFailed", "Azure Speech falhou: None"))
                    /\ elapsed' = 0
               [] OTHER ->
                    IF elapsed + poll_interval < max_wait
                    THEN /\ elapsed' = elapsed + poll_interval
                         /\ UNCHANGED <<pc, exc>>
                    ELSE /\ Raise(Raised("PollTimeout", "Job não completou em 3600 segundos"))
                         /\ elapsed' = 0
    /\ speech' = [speech EXCEPT !.requested = speech.local]
    /\ UNCHANGED <<retries, parsed, faiss, results, sumTask, minTask, chat, serviceVars, toolVars, routeVars>>

\* tasks.py:154-172  download_transcription_result(azure_job_id), progress
\* 0.85, parse
Download(j) ==
    /\ pc = "download"
    /\ \/ \E t \in Texts, d \in Durations :
          /\ jobs' = [jobs EXCEPT ![j].progress = P_DOWNLOADED]
          /\ parsed' = Some([full_text |-> t, duration_seconds |-> d])
          /\ pc' = "store"
          /\ UNCHANGED exc
       \/ \E m \in HttpErrors \cup {"URL de conteúdo não encontrada"} :
          /\ Raise(Raised("DownloadError", m))
          /\ UNCHANGED <<jobs, parsed>>
    /\ speech' = [speech EXCEPT !.requested = speech.local]
    /\ UNCHANGED <<retries, elapsed, faiss, results, sumTask, minTask, chat, serviceVars, toolVars, routeVars>>

\* tasks.py:174-204  the two uploads to results/{job_id}/, progress 0.9
Store(j) ==
    /\ pc = "store"
    /\ \/ /\ results' = results \cup {<<j, "transcription.json">>, <<j, "transcription.txt">>}
          /\ jobs' = [jobs EXCEPT ![j].progress = P_STORED]
          /\ pc' = "index"
          /\ UNCHANGED exc
       \/ \E m \in StorageErrors, done \in SUBSET {<<j, "transcription.json">>} :
          /\ results' = results \cup done
          /\ Raise(Raised("UploadError", m))
          /\ UNCHANGED jobs
    /\ UNCHANGED <<retries, elapsed, parsed, faiss, sumTask, minTask, speech, chat, serviceVars, toolVars, routeVars>>

\* IndexAndComplete going on with an index of no chunk
IndexAndComplete_EmptyIndex(j) ==
    /\ pc = "index"
    /\ LET full_text == parsed[1].full_text
           chunks == chunk_text(full_text)
       IN  \/ \E m \in OpenAIErrors :
                /\ chunks # <<>>
                /\ Raise(Raised("EmbeddingError", m))
                /\ UNCHANGED <<jobs, faiss>>
           \/ /\ faiss' = (j :> BuiltIndex(chunks)) @@ faiss
              /\ jobs' = [jobs EXCEPT ![j].status = "COMPLETED",
                                      ![j].progress = P_COMPLETED,
                                      ![j].completed_at = Some(Now),
                                      ![j].transcription_text = Some(full_text),
                                      ![j].duration_seconds = Some(parsed[1].duration_seconds)]
              /\ pc' = "done"
              /\ UNCHANGED exc
    /\ parsed' = None
    /\ UNCHANGED <<retries, elapsed, results, sumTask, minTask, speech, chat, serviceVars, toolVars, routeVars>>

\* IndexAndComplete with the status assignment of the final commit left out
IndexAndComplete_NoStatus(j) ==
    /\ pc = "index"
    /\ LET full_text == parsed[1].full_text
           chunks == chunk_text(full_text)
       IN  IF chunks = <<>>
           THEN /\ Raise(Raised("NoChunks", "Nenhum chunk gerado do texto"))
                /\ UNCHANGED <<jobs, faiss>>
           ELSE \/ \E m \in OpenAIErrors :
                   /\ Raise(Raised("EmbeddingError", m))
                   /\ UNCHANGED <<jobs, faiss>>
                \/ /\ faiss' = (j :> BuiltIndex(chunks)) @@ faiss
                   /\ jobs' = [jobs EXCEPT ![j].progress = P_COMPLETED,
                                           ![j].completed_at = Some(Now),
                                           ![j].transcription_text = Some(full_text),
                                           ![j].duration_seconds = Some(parsed[1].duration_seconds)]
                   /\ pc' = "done"
                   /\ UNCHANGED exc
    /\ parsed' = None
    /\ UNCHANGED <<retries, elapsed, results, sumTask, minTask, speech, chat, serviceVars, toolVars, routeVars>>

\* IndexAndComplete with progress 1.0 committed before the index build
IndexAndComplete_ProgressFirst(j) ==
    /\ pc = "index"
    /\ LET full_text == parsed[1].full_text
           chunks == chunk_text(full_text)
       IN  IF chunks = <<>>
           THEN /\ Raise(Raised("NoChunks", "Nenhum chunk gerado do texto"))
                /\ jobs' = [jobs EXCEPT ![j].progress = P_COMPLETED]
                /\ UNCHANGED faiss
           ELSE \/ \E m \in OpenAIErrors :
                   /\ Raise(Raised("EmbeddingError", m))
                   /\ jobs' = [jobs EXCEPT ![j].progress = P_COMPLETED]
                   /\ UNCHANGED faiss
                \/ /\ faiss' = (j :> BuiltIndex(chunks)) @@ faiss
                   /\ jobs' = [jobs EXCEPT ![j].status = "COMPLETED",
                                           ![j].progress = P_COMPLETED,
                                           ![j].completed_at = Some(Now),
                                           ![j].transcription_text = Some(full_text),
                                           ![j].duration_seconds = Some(parsed[1].duration_seconds)]
                   /\ pc' = "done"
                   /\ UNCHANGED exc
    /\ parsed' = None
    /\ UNCHANGED <<retries, elapsed, results, sumTask, minTask, speech, chat, serviceVars, toolVars, routeVars>>

\* IndexAndComplete with a failure of the index build logged and swallowed
IndexAndComplete_SwallowIndexError(j) ==
    /\ pc = "index"
    /\ LET full_text == parsed[1].full_text
           chunks == chunk_text(full_text)
           completed == [jobs EXCEPT ![j].status = "COMPLETED",
                                     ![j].progress = P_COMPLETED,
                                     ![j].completed_at = Some(Now),
                                     ![j].transcription_text = Some(full_text),
                                     ![j].duration_seconds = Some(parsed[1].duration_seconds)]
       IN  /\ jobs' = completed
           /\ pc' = "done"
           /\ UNCHANGED exc
           /\ \/ chunks # <<>> /\ faiss' = (j :> BuiltIndex(chunks)) @@ faiss
              \/ UNCHANGED faiss
    /\ parsed' = None
    /\ UNCHANGED <<retries, elapsed, results, sumTask, minTask, speech, chat, serviceVars, toolVars, routeVars>>

\* tasks.py:206-226 with embeddings.py:109-144  build the index, then mark
\* COMPLETED with progress 1.0, the text and the duration
IndexAndComplete(j) ==
    /\ pc = "index"
    /\ LET full_text == parsed[1].full_text
           chunks == chunk_text(full_text)
       IN  IF chunks = <<>>
           THEN /\ Raise(Raised("NoChunks", "Nenhum chunk gerado do texto"))
                /\ UNCHANGED <<jobs, faiss>>
           ELSE \/ \E m \in OpenAIErrors :
                   /\ Raise(Raised("EmbeddingError", m))
                   /\ UNCHANGED <<jobs, faiss>>
                \/ /\ faiss' = (j :> BuiltIndex(chunks)) @@ faiss
                   /\ jobs' = [jobs EXCEPT ![j].status = "COMPLETED",
                                           ![j].progress = P_COMPLETED,
                                           ![j].completed_at = Some(Now),
                                           ![j].transcription_text = Some(full_text),
                                           ![j].duration_seconds = Some(parsed[1].duration_seconds)]
                   /\ pc' = "done"
                   /\ UNCHANGED exc
    /\ parsed' = None
    /\ UNCHANGED <<retries, elapsed, results, sumTask, minTask, speech, chat, serviceVars, toolVars, routeVars>>

\* ExceptCommit with the assignment of error_message left out
ExceptCommit_NoMessage(j) ==
    /\ pc = "except"
    /\ jobs' = IF Found(j)
               THEN [jobs EXCEPT ![j].status = "FAILED",
                                 ![j].completed_at = Some(Now)]
               ELSE jobs
    /\ pc' = "retry"
    /\ parsed' = None
    /\ UNCHANGED <<retries, elapsed, exc, faiss, results, sumTask, minTask, speech, chat, serviceVars, toolVars, routeVars>>

\* tasks.py:238-247  the except clause up to its commit
ExceptCommit(j) ==
    /\ pc = "except"
    /\ jobs' = IF Found(j)
               THEN [jobs EXCEPT ![j].status = "FAILED",
                                 ![j].error_message = Some(exc.msg),
                                 ![j].completed_at = Some(Now)]
               ELSE jobs
    /\ pc' = "retry"
    /\ parsed' = None
    /\ UNCHANGED <<retries, elapsed, exc, faiss, results, sumTask, minTask, speech, chat, serviceVars, toolVars, routeVars>>

\* Retry with the limit compared one execution too late
Retry_OffByOne(j) ==
    /\ pc = "retry"
    /\ IF retries <= max_retries
       THEN /\ retries' = retries + 1
            /\ pc' = "retry_wait"
       ELSE /\ pc' = "gave_up"
            /\ UNCHANGED retries
    /\ UNCHANGED <<jobs, elapsed, exc, parsed, faiss, results, sumTask, minTask, speech, chat, serviceVars, toolVars, routeVars>>

\* tasks.py:250  raise self.retry(exc=e, countdown=60): a new message with
\* retries + 1 while retries < max_retries, else the exception is re-raised
Retry(j) ==
    /\ pc = "retry"
    /\ IF retries < max_retries
       THEN /\ retries' = retries + 1
            /\ pc' = "retry_wait"
       ELSE /\ pc' = "gave_up"
            /\ UNCHANGED retries
    /\ UNCHANGED <<jobs, elapsed, exc, parsed, faiss, results, sumTask, minTask, speech, chat, serviceVars, toolVars, routeVars>>

----------------------------------------------------------------------------
(* update_speaker_names, update_transcription *)

\* transcriptions.py:373-378 / chat.py:27-38  the text that is indexed: the
\* edited text if truthy, else the original, with each "Speaker {id}"
\* replaced by its custom name, in the order of the mapping
RECURSIVE ApplyNames(_, _)
ApplyNames(text, names) ==
    IF names = <<>> THEN text
    ELSE ApplyNames(Replace(text, SpeakerPrefix \o <<names[1][1]>>, names[1][2]), Tail(names))

CurrentText(row) ==
    IF Truthy(row.edited_transcription) THEN row.edited_transcription
    ELSE row.transcription_text

\* transcriptions.py:338-395  the names are committed without looking at
\* the status; then the index is rebuilt when there is a text, and a failure
\* of the rebuild is logged and swallowed
update_speaker_names(j, names) ==
    /\ Found(j)
    /\ jobs' = [jobs EXCEPT ![j].speaker_names = Some(names)]
    /\ LET text == CurrentText(jobs[j])
       IN  IF Truthy(text)
           THEN \/ faiss' = (j :> BuiltIndex(chunk_text(ApplyNames(text[1], names)))) @@ faiss
                \/ UNCHANGED faiss
           ELSE UNCHANGED faiss
    /\ UNCHANGED <<pc, retries, elapsed, exc, parsed, results, sumTask, minTask, speech, chat, serviceVars, toolVars, routeVars>>

\* update_transcription building the index again from the edited text
update_transcription_Reindex(j, edited_text) ==
    /\ Found(j)
    /\ jobs' = [jobs EXCEPT ![j].edited_transcription = Some(edited_text)]
    /\ faiss' = (j :> BuiltIndex(chunk_text(edited_text))) @@ faiss
    /\ UNCHANGED <<pc, retries, elapsed, exc, parsed, results, sumTask, minTask, speech, chat, serviceVars, toolVars, routeVars>>

\* transcriptions.py:425-458  the edited text is committed without looking
\* at the status
update_transcription(j, edited_text) ==
    /\ Found(j)
    /\ jobs' = [jobs EXCEPT ![j].edited_transcription = Some(edited_text)]
    /\ UNCHANGED <<pc, retries, elapsed, exc, parsed, faiss, results, sumTask, minTask, speech, chat, serviceVars, toolVars, routeVars>>

----------------------------------------------------------------------------
(* summary and meeting minutes *)

Summaries == {"resumo"}
Minutes == {"ata"}

Idle(task) == task.state \in {"idle", "done", "gave_up"}

\* summary.py:104-151  generate_summary: enqueue the task for a COMPLETED job
\* that has no summary
generate_summary(j) ==
    /\ Found(j)
    /\ jobs[j].status = "COMPLETED"
    /\ jobs[j].summary = None
    /\ Idle(sumTask)
    /\ sumTask' = [state |-> "queued", retries |-> 0]
    /\ UNCHANGED <<jobs, pc, retries, elapsed, exc, parsed, faiss, results, minTask, speech, chat, serviceVars, toolVars, routeVars>>

\* self.retry of a task with the given max_retries
TaskRetry(task, limit) ==
    IF task.retries < limit
    THEN [state |-> "retry_wait", retries |-> task.retries + 1]
    ELSE [task EXCEPT !.state = "gave_up"]

\* tasks.py:276-321  one execution of generate_summary_task
generate_summary_task(j) ==
    /\ sumTask.state \in {"queued", "retry_wait"}
    /\ IF ~Found(j) \/ jobs[j].status # "COMPLETED"
       THEN /\ sumTask' = TaskRetry(sumTask, summary_max_retries)
            /\ UNCHANGED jobs
       ELSE IF jobs[j].summary # None
       THEN /\ sumTask' = [sumTask EXCEPT !.state = "done"]
            /\ UNCHANGED jobs
       ELSE IF ~Truthy(jobs[j].transcription_text)
       THEN /\ sumTask' = TaskRetry(sumTask, summary_max_retries)
            /\ UNCHANGED jobs
       ELSE \/ \E s \in Summaries :
               /\ jobs' = [jobs EXCEPT ![j].summary = Some(s)]
               /\ sumTask' = [sumTask EXCEPT !.state = "done"]
            \/ /\ sumTask' = TaskRetry(sumTask, summary_max_retries)
               /\ UNCHANGED jobs
    /\ UNCHANGED <<pc, retries, elapsed, exc, parsed, faiss, results, minTask, speech, chat, serviceVars, toolVars, routeVars>>

\* summary.py:182-204  delete_summary clears the summary without looking at
\* the status
delete_summary(j) ==
    /\ Found(j)
    /\ jobs' = [jobs EXCEPT ![j].summary = None]
    /\ UNCHANGED <<pc, retries, elapsed, exc, parsed, faiss, results, sumTask, minTask, speech, chat, serviceVars, toolVars, routeVars>>

\* meeting_minutes.py:114-172  generate_meeting_minutes: enqueue the task for
\* a COMPLETED job that has no minutes
generate_meeting_minutes(j) ==
    /\ Found(j)
    /\ jobs[j].status = "COMPLETED"
    /\ jobs[j].meeting_minutes = None
    /\ Idle(minTask)
    /\ minTask' = [state |-> "queued", retries |-> 0]
    /\ UNCHANGED <<jobs, pc, retries, elapsed, exc, parsed, faiss, results, sumTask, speech, chat, serviceVars, toolVars, routeVars>>

\* tasks.py:349-396  one execution of generate_meeting_minutes_task
generate_meeting_minutes_task(j) ==
    /\ minTask.state \in {"queued", "retry_wait"}
    /\ IF ~Found(j) \/ jobs[j].status # "COMPLETED"
       THEN /\ minTask' = TaskRetry(minTask, minutes_max_retries)
            /\ UNCHANGED jobs
       ELSE IF jobs[j].meeting_minutes # None
       THEN /\ minTask' = [minTask EXCEPT !.state = "done"]
            /\ UNCHANGED jobs
       ELSE IF ~Truthy(jobs[j].transcription_text)
       THEN /\ minTask' = TaskRetry(minTask, minutes_max_retries)
            /\ UNCHANGED jobs
       ELSE \/ \E m \in Minutes :
               /\ jobs' = [jobs EXCEPT ![j].meeting_minutes = Some(m)]
               /\ minTask' = [minTask EXCEPT !.state = "done"]
            \/ /\ minTask' = TaskRetry(minTask, minutes_max_retries)
               /\ UNCHANGED jobs
    /\ UNCHANGED <<pc, retries, elapsed, exc, parsed, faiss, results, sumTask, speech, chat, serviceVars, toolVars, routeVars>>

\* meeting_minutes.py:203-225  delete_meeting_minutes
delete_meeting_minutes(j) ==
    /\ Found(j)
    /\ jobs' = [jobs EXCEPT ![j].meeting_minutes = None]
    /\ UNCHANGED <<pc, retries, elapsed, exc, parsed, faiss, results, sumTask, minTask, speech, chat, serviceVars, toolVars, routeVars>>

----------------------------------------------------------------------------
(* cleanup_old_jobs_task *)

\* Without taking every row away
Without_All(f, k) == [x \in {} |-> f[x]]

\* db.delete(job) of the rows, os.remove of the files of the one job
Without(f, k) == [x \in DOMAIN f \ {k} |-> f[x]]

\* tasks.py:414-461  the job is removed together with its index when it is in
\* a terminal status and Job.created_at < cutoff_date holds at the time of
\* the call; `old` is the outcome of that comparison for this call.  The
\* index is deleted inside the loop and the rows by the one db.commit() after
\* it: when that commit raises, the rollback keeps the row without its index
cleanup_old_jobs_task(j) ==
    \E old \in BOOLEAN :
        /\ Found(j)
        /\ old
        /\ jobs[j].status \in {"COMPLETED", "FAILED"}
        /\ \/ jobs' = Without(jobs, j)
           \/ UNCHANGED jobs
        /\ faiss' = Without(faiss, j)
        /\ UNCHANGED <<pc, retries, elapsed, exc, parsed, results, sumTask, minTask, speech, chat, serviceVars, toolVars, routeVars>>

----------------------------------------------------------------------------
(* chat_with_transcription *)

\* azure_openai.py:177-180  stop_after_attempt of the generation calls
gen_attempts == 3

\* chat.py:19-43  the edited text if there is one, else the original, with
\* the custom speaker names put in
get_transcription_text_with_custom_names(row) ==
    LET text == CurrentText(row)
    IN  IF text = None THEN <<>>
        ELSE IF row.speaker_names # None /\ row.speaker_names[1] # <<>>
             THEN ApplyNames(text[1], row.speaker_names[1])
             ELSE text[1]

ChatError(code, detail) == [NoChat EXCEPT !.code = code, !.detail = detail]

\* chat.py:121-188  search on the job's index, then answer_question under its
\* @retry; `build` is what became of the fallback build before
ChatAnswer(index, build) ==
    LET r == [NoChat EXCEPT !.build = build, !.searched = Some(index)]
    IN  \/ chat' = [r EXCEPT !.code = 500, !.detail = "Erro ao buscar contexto relevante",
                             !.search = IF index.ntotal = 0 THEN "empty" ELSE "failed"]
        \/ /\ index.ntotal > 0
           /\ \E failures \in 0..gen_attempts :
                chat' = IF failures = gen_attempts
                        THEN [r EXCEPT !.code = 500, !.detail = "Erro ao gerar resposta",
                                       !.search = "ok", !.answer = "failed",
                                       !.requests = gen_attempts]
                        ELSE [r EXCEPT !.code = 200, !.search = "ok", !.answer = "ok",
                                       !.requests = failures + 1]

\* chat.py:174-188  the response of the route as the caller has it: the
\* status code, and the answer made from the job's text when it is 200
ChatHttp(j, is_owner, response) ==
    [route |-> "chat_with_transcription", job_id |-> j, is_owner |-> Found(j) /\ is_owner,
     code |-> response.code,
     body |-> IF response.code = 200
              THEN Some([Told EXCEPT !.chunks = response.searched[1].chunks])
              ELSE None]

\* chat_with_transcription going on to the search after a failed fallback build
chat_with_transcription_SearchAfterFailedBuild(j, is_owner) ==
    /\ IF ~Found(j) THEN chat' = ChatError(404, "Job não encontrado") /\ UNCHANGED faiss
       ELSE IF ~is_owner THEN chat' = ChatError(403, "Acesso negado a este job") /\ UNCHANGED faiss
       ELSE IF jobs[j].status # "COMPLETED"
            THEN chat' = ChatError(400, "Transcrição não disponível") /\ UNCHANGED faiss
       ELSE LET chunks == chunk_text(get_transcription_text_with_custom_names(jobs[j]))
            IN  IF j \notin DOMAIN faiss
                THEN \/ /\ chat' = [NoChat EXCEPT !.code = 500,
                                        !.detail = "Erro ao buscar contexto relevante",
                                        !.build = "failed", !.search = "failed"]
                        /\ UNCHANGED faiss
                     \/ /\ chunks # <<>>
                        /\ faiss' = (j :> BuiltIndex(chunks)) @@ faiss
                        /\ ChatAnswer(BuiltIndex(chunks), "ok")
                ELSE ChatAnswer(faiss[j], "none") /\ UNCHANGED faiss
    /\ http' = ChatHttp(j, is_owner, chat')
    /\ UNCHANGED <<jobs, pc, retries, elapsed, exc, parsed, results, sumTask, minTask, speech, serviceVars, toolVars, summaryTasks>>

\* chat_with_transcription writing the failure of the request into the job
chat_with_transcription_MarkFailed(j, is_owner) ==
    /\ IF ~Found(j) THEN chat' = ChatError(404, "Job não encontrado") /\ UNCHANGED faiss
       ELSE IF ~is_owner THEN chat' = ChatError(403, "Acesso negado a este job") /\ UNCHANGED faiss
       ELSE IF jobs[j].status # "COMPLETED"
            THEN chat' = ChatError(400, "Transcrição não disponível") /\ UNCHANGED faiss
       ELSE LET chunks == chunk_text(get_transcription_text_with_custom_names(jobs[j]))
            IN  IF j \notin DOMAIN faiss
                THEN \/ /\ chat' = [NoChat EXCEPT !.code = 500,
                                        !.detail = "Erro ao preparar busca semântica",
                                        !.build = "failed"]
                        /\ UNCHANGED faiss
                     \/ /\ chunks # <<>>
                        /\ faiss' = (j :> BuiltIndex(chunks)) @@ faiss
                        /\ ChatAnswer(BuiltIndex(chunks), "ok")
                ELSE ChatAnswer(faiss[j], "none") /\ UNCHANGED faiss
    /\ jobs' = IF chat'.code = 500
               THEN [jobs EXCEPT ![j].error_message = Some(chat'.detail)]
               ELSE jobs
    /\ http' = ChatHttp(j, is_owner, chat')
    /\ UNCHANGED <<pc, retries, elapsed, exc, parsed, results, sumTask, minTask, speech, serviceVars, toolVars, summaryTasks>>

\* chat.py:46-188  the request is refused for a job that is missing (404), of
\* another user (403) or not COMPLETED (400); without an index the route
\* builds one from the text (a failure of the build is the response 500); then
\* it searches and answers.  The route commits nothing.
chat_with_transcription(j, is_owner) ==
    /\ IF ~Found(j) THEN chat' = ChatError(404, "Job não encontrado") /\ UNCHANGED faiss
       ELSE IF ~is_owner THEN chat' = ChatError(403, "Acesso negado a este job") /\ UNCHANGED faiss
       ELSE IF jobs[j].status # "COMPLETED"
            THEN chat' = ChatError(400, "Transcrição não disponível") /\ UNCHANGED faiss
       ELSE LET chunks == chunk_text(get_transcription_text_with_custom_names(jobs[j]))
            IN  IF j \notin DOMAIN faiss
                THEN \/ /\ chat' = [NoChat EXCEPT !.code = 500,
                                        !.detail = "Erro ao preparar busca semântica",
                                        !.build = "failed"]
                        /\ UNCHANGED faiss
                     \/ /\ chunks # <<>>
                        /\ faiss' = (j :> BuiltIndex(chunks)) @@ faiss
                        /\ ChatAnswer(BuiltIndex(chunks), "ok")
                ELSE ChatAnswer(faiss[j], "none") /\ UNCHANGED faiss
    /\ http' = ChatHttp(j, is_owner, chat')
    /\ UNCHANGED <<jobs, pc, retries, elapsed, exc, parsed, results, sumTask, minTask, speech, serviceVars, toolVars, summaryTasks>>

----------------------------------------------------------------------------
Next ==
    \E j \in JobIds :
        \/ UploadCreate(j)
        \/ UploadEnqueue(j)
        \/ StartExecution(j)
        \/ Presign(j)
        \/ CreateJob(j)
        \/ PollTick(j)
        \/ Download(j)
        \/ Store(j)
        \/ IndexAndComplete(j)
        \/ ExceptCommit(j)
        \/ Retry(j)
        \/ \E names \in SpeakerMaps : update_speaker_names(j, names)
        \/ \E t \in EditedTexts : update_transcription(j, t)
        \/ generate_summary(j)
        \/ generate_summary_task(j)
        \/ delete_summary(j)
        \/ generate_meeting_minutes(j)
        \/ generate_meeting_minutes_task(j)
        \/ delete_meeting_minutes(j)
        \/ cleanup_old_jobs_task(j)

Spec == Init /\ [][Next]_vars

\* The same program started when another job, of an earlier upload, is
\* COMPLETED with its index; its id is none the requests and messages of
\* Next name
OtherJob == "J0"
OtherText == SpeakerPrefix \o <<"2", ":", " ", "f", "i", "m", ".">>
OtherRow == [NewJob EXCEPT !.status = "COMPLETED",
                           !.progress = P_COMPLETED,
                           !.started_at = Some(0),
                           !.completed_at = Some(0),
                           !.azure_job_id = Some(0),
                           !.transcription_text = Some(OtherText),
                           !.duration_seconds = Some(2)]

InitWithOtherJob ==
    /\ jobs = (OtherJob :> OtherRow)
    /\ pc = "idle"
    /\ retries = 0
    /\ elapsed = 0
    /\ exc = NoExc
    /\ parsed = None
    /\ faiss = (OtherJob :> BuiltIndex(chunk_text(OtherText)))
    /\ results = {<<OtherJob, "transcription.json">>, <<OtherJob, "transcription.txt">>}
    /\ sumTask = [state |-> "idle", retries |-> 0]
    /\ minTask = [state |-> "idle", retries |-> 0]
    /\ poller = PollIdle
    /\ indexFile = [j \in JobIds |-> None]
    /\ metaFile = [j \in JobIds |-> None]
    /\ calls = [p \in Callers |-> NoCall]
    /\ speech = NoSpeech
    /\ chat = NoChat
    /\ gen = GenIdle
    /\ chunker = ChunkIdle
    /\ diar = ParseIdle
    /\ http = NoHttp
    /\ summaryTasks = [t \in TaskIds |-> NoTask]

TwoJobsSpec == InitWithOtherJob /\ [][Next]_vars

\* The pipeline, the edits of the text and of the names, the cleanup and the
\* chat route
ChatNext ==
    \E j \in JobIds :
        \/ UploadCreate(j)
        \/ UploadEnqueue(j)
        \/ StartExecution(j)
        \/ Presign(j)
        \/ CreateJob(j)
        \/ PollTick(j)
        \/ Download(j)
        \/ Store(j)
        \/ IndexAndComplete(j)
        \/ ExceptCommit(j)
        \/ Retry(j)
        \/ \E names \in SpeakerMaps : update_speaker_names(j, names)
        \/ \E t \in EditedTexts : update_transcription(j, t)
        \/ cleanup_old_jobs_task(j)
        \/ \E is_owner \in BOOLEAN : chat_with_transcription(j, is_owner)

ChatSpec == Init /\ [][ChatNext]_vars

----------------------------------------------------------------------------
(* The job-scoped routes as requests of any user, on a job of an earlier    *)
(* upload taken in each status of its life, and the executions of           *)
(* generate_summary_task step by step.                                      *)

\* Texts the summarize call can return
SummaryTexts == {"resumo a", "resumo b"}

\* A job of an earlier upload: waiting, in execution, completed, failed
QueuedRow == NewJob
ProcessingRow == [NewJob EXCEPT !.status = "PROCESSING",
                                !.progress = P_PROCESSING,
                                !.started_at = Some(0)]
FailedRow == [ProcessingRow EXCEPT !.status = "FAILED",
                                   !.error_message = Some("OCI ServiceError"),
                                   !.completed_at = Some(0)]
\* The completed job after its summary and its minutes were generated
SummarizedRow == [OtherRow EXCEPT !.summary = Some("resumo"),
                                  !.meeting_minutes = Some("ata")]
RouteRows == {QueuedRow, ProcessingRow, OtherRow, SummarizedRow, FailedRow}

RouteInit ==
    /\ \E row \in RouteRows :
        /\ jobs = (OtherJob :> row)
        /\ faiss = IF row.status = "COMPLETED"
                   THEN (OtherJob :> BuiltIndex(chunk_text(OtherText)))
                   ELSE NoIndexes
        /\ results = IF row.status = "COMPLETED"
                     THEN {<<OtherJob, "transcription.json">>, <<OtherJob, "transcription.txt">>}
                     ELSE {}
    /\ pc = "idle"
    /\ retries = 0
    /\ elapsed = 0
    /\ exc = NoExc
    /\ parsed = None
    /\ sumTask = [state |-> "idle", retries |-> 0]
    /\ minTask = [state |-> "idle", retries |-> 0]
    /\ poller = PollIdle
    /\ indexFile = [j \in JobIds |-> None]
    /\ metaFile = [j \in JobIds |-> None]
    /\ calls = [p \in Callers |-> NoCall]
    /\ speech = NoSpeech
    /\ chat = NoChat
    /\ gen = GenIdle
    /\ chunker = ChunkIdle
    /\ diar = ParseIdle
    /\ http = NoHttp
    /\ summaryTasks = [t \in TaskIds |-> NoTask]

\* Gate without the comparison of job.user_id with current_user.id
Gate_NoOwnerCheck(j, is_owner, completed_only) ==
    IF ~Found(j) THEN 404
    ELSE IF completed_only /\ jobs[j].status # "COMPLETED" THEN 400
    ELSE 0

\* Gate without the comparison of job.status with COMPLETED
Gate_NoStatusCheck(j, is_owner, completed_only) ==
    IF ~Found(j) THEN 404
    ELSE IF ~is_owner THEN 403
    ELSE 0

\* The checks every job-scoped route starts with: the job exists (404), it is
\* the caller's (403) and, where the route asks for it, it is COMPLETED (400);
\* 0 when the request goes on
Gate(j, is_owner, completed_only) ==
    IF ~Found(j) THEN 404
    ELSE IF ~is_owner THEN 403
    ELSE IF completed_only /\ jobs[j].status # "COMPLETED" THEN 400
    ELSE 0

Answer(route, j, is_owner, code, body) ==
    http' = [route |-> route, job_id |-> j, is_owner |-> Found(j) /\ is_owner,
             code |-> code, body |-> body]

\* What no route changes
RouteFrame == UNCHANGED <<pc, retries, elapsed, exc, parsed, results, sumTask, speech,
                          chat, serviceVars, toolVars>>

\* jobs.py:16-62  GET /jobs/{job_id}/status
GET_status(j, is_owner) ==
    LET code == Gate(j, is_owner, FALSE)
    IN  /\ IF code # 0 THEN Answer("get_job_status", j, is_owner, code, None)
           ELSE Answer("get_job_status", j, is_owner, 200,
                       Some([Told EXCEPT !.status = jobs[j].status]))
        /\ UNCHANGED <<jobs, faiss, minTask, summaryTasks>>
        /\ RouteFrame

\* transcriptions.py:30-147  GET /transcriptions/{job_id}: the stored result
\* is downloaded (a failure is the response 500); the text is the edited one
\* if there is one, else the stored one, with the custom names put in
GET_transcription(j, is_owner) ==
    LET code == Gate(j, is_owner, TRUE)
    IN  /\ IF code # 0 THEN Answer("get_transcription", j, is_owner, code, None)
           ELSE \/ Answer("get_transcription", j, is_owner, 500, None)
                \/ /\ <<j, "transcription.json">> \in results
                   /\ Answer("get_transcription", j, is_owner, 200,
                             Some([Told EXCEPT
                                    !.status = jobs[j].status,
                                    !.text = Some(get_transcription_text_with_custom_names(jobs[j]))]))
        /\ UNCHANGED <<jobs, faiss, minTask, summaryTasks>>
        /\ RouteFrame

\* transcriptions.py:150-248  GET /transcriptions/{job_id}/download: the
\* stored file, its text replaced by the edited one if there is one
GET_transcription_download(j, is_owner, format) ==
    LET code == Gate(j, is_owner, TRUE)
    IN  /\ IF code # 0 THEN Answer("download_transcription", j, is_owner, code, None)
           ELSE \/ Answer("download_transcription", j, is_owner, 500, None)
                \/ /\ <<j, "transcription." \o format>> \in results
                   /\ Answer("download_transcription", j, is_owner, 200,
                             Some([Told EXCEPT !.text = CurrentText(jobs[j])]))
        /\ UNCHANGED <<jobs, faiss, minTask, summaryTasks>>
        /\ RouteFrame

\* PUT_speakers adding the new chunks to those of the stored index
PUT_speakers_Append(j, is_owner, names) ==
    LET code == Gate(j, is_owner, FALSE)
    IN  /\ IF code # 0
           THEN /\ Answer("update_speaker_names", j, is_owner, code, None)
                /\ UNCHANGED <<jobs, faiss>>
           ELSE /\ jobs' = [jobs EXCEPT ![j].speaker_names = Some(names)]
                /\ LET text == CurrentText(jobs[j])
                       chunks == chunk_text(ApplyNames(text[1], names))
                       stored == IF j \in DOMAIN faiss THEN faiss[j].chunks ELSE <<>>
                   IN  IF Truthy(text)
                       THEN \/ chunks # <<>>
                               /\ faiss' = (j :> BuiltIndex(stored \o chunks)) @@ faiss
                            \/ UNCHANGED faiss
                       ELSE UNCHANGED faiss
                /\ Answer("update_speaker_names", j, is_owner, 200, Some(Told))
        /\ UNCHANGED <<minTask, summaryTasks>>
        /\ RouteFrame

\* transcriptions.py:311-395  PUT /transcriptions/{job_id}/speakers: the
\* names are committed, then the index is rebuilt from the current text with
\* the names put in; a failure of the rebuild is logged and swallowed
PUT_speakers(j, is_owner, names) ==
    LET code == Gate(j, is_owner, FALSE)
    IN  /\ IF code # 0
           THEN /\ Answer("update_speaker_names", j, is_owner, code, None)
                /\ UNCHANGED <<jobs, faiss>>
           ELSE /\ jobs' = [jobs EXCEPT ![j].speaker_names = Some(names)]
                /\ LET text == CurrentText(jobs[j])
                       chunks == chunk_text(ApplyNames(text[1], names))
                   IN  IF Truthy(text)
                       THEN \/ chunks # <<>> /\ faiss' = (j :> BuiltIndex(chunks)) @@ faiss
                            \/ UNCHANGED faiss
                       ELSE UNCHANGED faiss
                /\ Answer("update_speaker_names", j, is_owner, 200, Some(Told))
        /\ UNCHANGED <<minTask, summaryTasks>>
        /\ RouteFrame

\* transcriptions.py:398-458  PUT /transcriptions/{job_id}/edit
PUT_edit(j, is_owner, edited_text) ==
    LET code == Gate(j, is_owner, FALSE)
    IN  /\ IF code # 0
           THEN /\ Answer("update_transcription", j, is_owner, code, None)
                /\ UNCHANGED jobs
           ELSE /\ jobs' = [jobs EXCEPT ![j].edited_transcription = Some(edited_text)]
                /\ Answer("update_transcription", j, is_owner, 200, Some(Told))
        /\ UNCHANGED <<faiss, minTask, summaryTasks>>
        /\ RouteFrame

\* summary.py:17-72  GET /summary/{job_id}
GET_summary(j, is_owner) ==
    LET code == Gate(j, is_owner, TRUE)
    IN  /\ IF code # 0 THEN Answer("get_summary", j, is_owner, code, None)
           ELSE IF jobs[j].summary = None THEN Answer("get_summary", j, is_owner, 404, None)
           ELSE Answer("get_summary", j, is_owner, 200,
                       Some([Told EXCEPT !.summary = jobs[j].summary, !.cached = TRUE]))
        /\ UNCHANGED <<jobs, faiss, minTask, summaryTasks>>
        /\ RouteFrame

\* The least task id that has no message
FreeTask == CHOOSE t \in TaskIds :
                /\ summaryTasks[t].state = "none"
                /\ \A u \in TaskIds : summaryTasks[u].state = "none" => t <= u

\* summary.py:75-158  POST /summary/{job_id}: the stored summary with
\* cached = True when there is one, else generate_summary_task.delay, whose
\* failure is the response 500
POST_summary(j, is_owner) ==
    LET code == Gate(j, is_owner, TRUE)
    IN  /\ IF code # 0
           THEN /\ Answer("generate_summary", j, is_owner, code, None)
                /\ UNCHANGED summaryTasks
           ELSE IF jobs[j].summary # None
           THEN /\ Answer("generate_summary", j, is_owner, 202,
                          Some([Told EXCEPT !.summary = jobs[j].summary, !.cached = TRUE]))
                /\ UNCHANGED summaryTasks
           ELSE /\ \E t \in TaskIds : summaryTasks[t].state = "none"
                /\ \/ /\ summaryTasks' = [summaryTasks EXCEPT ![FreeTask] =
                                            [state |-> "queued", retries |-> 0, job |-> j]]
                      /\ Answer("generate_summary", j, is_owner, 202, Some(Told))
                   \/ /\ Answer("generate_summary", j, is_owner, 500, None)
                      /\ UNCHANGED summaryTasks
        /\ UNCHANGED <<jobs, faiss, minTask>>
        /\ RouteFrame

\* summary.py:161-204  DELETE /summary/{job_id}
DELETE_summary(j, is_owner) ==
    LET code == Gate(j, is_owner, FALSE)
    IN  /\ IF code # 0
           THEN /\ Answer("delete_summary", j, is_owner, code, None)
                /\ UNCHANGED jobs
           ELSE /\ jobs' = [jobs EXCEPT ![j].summary = None]
                /\ Answer("delete_summary", j, is_owner, 200, Some(Told))
        /\ UNCHANGED <<faiss, minTask, summaryTasks>>
        /\ RouteFrame

\* meeting_minutes.py:24-82  GET /meeting-minutes/{job_id}
GET_meeting_minutes(j, is_owner) ==
    LET code == Gate(j, is_owner, TRUE)
    IN  /\ IF code # 0 THEN Answer("get_meeting_minutes", j, is_owner, code, None)
           ELSE IF jobs[j].meeting_minutes = None
           THEN Answer("get_meeting_minutes", j, is_owner, 404, None)
           ELSE Answer("get_meeting_minutes", j, is_owner, 200,
                       Some([Told EXCEPT !.minutes = jobs[j].meeting_minutes, !.cached = TRUE]))
        /\ UNCHANGED <<jobs, faiss, minTask, summaryTasks>>
        /\ RouteFrame

\* meeting_minutes.py:85-180  POST /meeting-minutes/{job_id}: the stored
\* minutes with cached = True when there are some, else
\* generate_meeting_minutes_task.delay, whose failure is the response 500
POST_meeting_minutes(j, is_owner) ==
    LET code == Gate(j, is_owner, TRUE)
    IN  /\ IF code # 0
           THEN /\ Answer("generate_meeting_minutes", j, is_owner, code, None)
                /\ UNCHANGED minTask
           ELSE IF jobs[j].meeting_minutes # None
           THEN /\ Answer("generate_meeting_minutes", j, is_owner, 202,
                          Some([Told EXCEPT !.minutes = jobs[j].meeting_minutes,
                                            !.cached = TRUE]))
                /\ UNCHANGED minTask
           ELSE /\ Idle(minTask)
                /\ \/ /\ minTask' = [state |-> "queued", retries |-> 0]
                      /\ Answer("generate_meeting_minutes", j, is_owner, 202, Some(Told))
                   \/ /\ Answer("generate_meeting_minutes", j, is_owner, 500, None)
                      /\ UNCHANGED minTask
        /\ UNCHANGED <<jobs, faiss, summaryTasks>>
        /\ RouteFrame

\* meeting_minutes.py:182-225  DELETE /meeting-minutes/{job_id}
DELETE_meeting_minutes(j, is_owner) ==
    LET code == Gate(j, is_owner, FALSE)
    IN  /\ IF code # 0
           THEN /\ Answer("delete_meeting_minutes", j, is_owner, code, None)
                /\ UNCHANGED jobs
           ELSE /\ jobs' = [jobs EXCEPT ![j].meeting_minutes = None]
                /\ Answer("delete_meeting_minutes", j, is_owner, 200, Some(Told))
        /\ UNCHANGED <<faiss, minTask, summaryTasks>>
        /\ RouteFrame

\* meeting_minutes.py:228-310  GET /meeting-minutes/{job_id}/download: the
\* stored minutes as a document; a failure of its generation is the
\* response 500
GET_meeting_minutes_download(j, is_owner) ==
    LET code == Gate(j, is_owner, TRUE)
    IN  /\ IF code # 0 THEN Answer("download_meeting_minutes_docx", j, is_owner, code, None)
           ELSE IF jobs[j].meeting_minutes = None
           THEN Answer("download_meeting_minutes_docx", j, is_owner, 404, None)
           ELSE \/ Answer("download_meeting_minutes_docx", j, is_owner, 500, None)
                \/ Answer("download_meeting_minutes_docx", j, is_owner, 200,
                          Some([Told EXCEPT !.minutes = jobs[j].meeting_minutes]))
        /\ UNCHANGED <<jobs, faiss, minTask, summaryTasks>>
        /\ RouteFrame

\* What no step of a summary task changes
TaskFrame == UNCHANGED <<pc, retries, elapsed, exc, parsed, faiss, results, sumTask, minTask,
                         speech, chat, serviceVars, toolVars, http>>

\* tasks.py:319-321  self.retry(exc=e, countdown=30) of an execution
SummaryRetry(task) ==
    IF task.retries < summary_max_retries
    THEN [task EXCEPT !.state = "retry_wait", !.retries = @ + 1]
    ELSE [task EXCEPT !.state = "gave_up"]

\* tasks.py:276-299  an execution starts: it reads the job and its summary;
\* a missing job, one that is not COMPLETED and a missing text raise; a
\* stored summary is returned as cached; else summarize is called
generate_summary_task_read(t) ==
    LET task == summaryTasks[t]
        j == task.job
    IN  /\ task.state \in {"queued", "retry_wait"}
        /\ summaryTasks' = [summaryTasks EXCEPT ![t] =
                IF ~Found(j) \/ jobs[j].status # "COMPLETED" THEN SummaryRetry(task)
                ELSE IF jobs[j].summary # None THEN [task EXCEPT !.state = "done"]
                ELSE IF ~Truthy(jobs[j].transcription_text) THEN SummaryRetry(task)
                ELSE [task EXCEPT !.state = "summarize"]]
        /\ UNCHANGED jobs
        /\ TaskFrame

\* tasks.py:301-317  summarize returns or raises; its text is assigned to the
\* job read before and committed
generate_summary_task_commit(t) ==
    LET task == summaryTasks[t]
        j == task.job
    IN  /\ task.state = "summarize"
        /\ \/ /\ summaryTasks' = [summaryTasks EXCEPT ![t] = SummaryRetry(task)]
              /\ UNCHANGED jobs
           \/ /\ Found(j)
              /\ \E summary \in SummaryTexts :
                    jobs' = [jobs EXCEPT ![j].summary = Some(summary)]
              /\ summaryTasks' = [summaryTasks EXCEPT ![t] = [task EXCEPT !.state = "done"]]
        /\ TaskFrame

\* The result of an execution that has ended is dropped
generate_summary_task_forget(t) ==
    /\ summaryTasks[t].state \in {"done", "gave_up"}
    /\ summaryTasks' = [summaryTasks EXCEPT ![t] = NoTask]
    /\ UNCHANGED jobs
    /\ TaskFrame

RouteJobIds == JobIds \cup {OtherJob}
Formats == {"txt", "json"}

RouteNext ==
    \/ \E j \in RouteJobIds, is_owner \in BOOLEAN :
        \/ GET_status(j, is_owner)
        \/ GET_transcription(j, is_owner)
        \/ \E format \in Formats : GET_transcription_download(j, is_owner, format)
        \/ \E names \in SpeakerMaps : PUT_speakers(j, is_owner, names)
        \/ \E t \in EditedTexts : PUT_edit(j, is_owner, t)
        \/ chat_with_transcription(j, is_owner)
        \/ GET_summary(j, is_owner)
        \/ POST_summary(j, is_owner)
        \/ DELETE_summary(j, is_owner)
        \/ GET_meeting_minutes(j, is_owner)
        \/ POST_meeting_minutes(j, is_owner)
        \/ DELETE_meeting_minutes(j, is_owner)
        \/ GET_meeting_minutes_download(j, is_owner)

RouteSpec == RouteInit /\ [][RouteNext]_vars

\* The summary routes with the executions of generate_summary_task
SummaryNext ==
    \/ \E j \in RouteJobIds, is_owner \in BOOLEAN :
        \/ GET_summary(j, is_owner)
        \/ POST_summary(j, is_owner)
        \/ DELETE_summary(j, is_owner)
    \/ \E t \in TaskIds :
        \/ generate_summary_task_read(t)
        \/ generate_summary_task_commit(t)
        \/ generate_summary_task_forget(t)

SummarySpec == RouteInit /\ [][SummaryNext]_vars


----------------------------------------------------------------------------
(* The polling loops taken alone: poll_with_progress of the pipeline and     *)
(* AzureSpeechService.wait_for_completion, one statement group per step.    *)
(* poller.fetches counts the calls of get_transcription_status and          *)
(* poller.sleeps the calls of asyncio.sleep; poller.clock is the wall-clock *)
(* time since wait_for_completion read start_time.                          *)

\* azure_speech.py:124,125  defaults max_wait_seconds and poll_interval of
\* wait_for_completion; azure_speech.py:106  timeout of one status request
max_wait_seconds == 3600
wait_poll_interval == 10
status_timeout == 15

\* Values of the field "status" of the remote job: the documented ones and
\* one the program does not know
PolledStatuses == RemoteStatuses \cup {"Deleted"}
\* str() of the field properties.error of the remote job
RemoteErrors == {"None", "{'code': 'InvalidData'}"}
\* Seconds one status request can take
FetchSeconds == {0, status_timeout}

PollLoops == {"pipeline", "service"}

PollStart(loop) ==
    /\ poller.at = "idle"
    /\ poller' = [PollIdle EXCEPT !.loop = loop, !.at = "cond"]
    /\ UNCHANGED <<pipelineVars, routeVars, toolVars, indexFile, metaFile, calls>>

\* tasks.py:124,149  while elapsed < max_wait ... raise TimeoutError
PollCond ==
    /\ poller.loop = "pipeline"
    /\ poller.at = "cond"
    /\ poller' = IF poller.elapsed < max_wait
                 THEN [poller EXCEPT !.at = "fetch"]
                 ELSE [poller EXCEPT !.at = "raised",
                                     !.out = "Job não completou em 3600 segundos"]
    /\ UNCHANGED <<pipelineVars, routeVars, toolVars, indexFile, metaFile, calls>>

\* azure_speech.py:88-119  one call of get_transcription_status: the status
\* and error of the remote job, or the exception of httpx
get_transcription_status(after) ==
    \/ \E st \in PolledStatuses, er \in RemoteErrors :
          poller' = [poller EXCEPT !.fetches = @ + 1,
                                   !.status = st,
                                   !.error = IF st = "Failed" THEN er ELSE "",
                                   !.clock = after,
                                   !.at = "check"]
    \/ \E m \in HttpErrors :
          poller' = [poller EXCEPT !.fetches = @ + 1,
                                   !.status = "",
                                   !.clock = after,
                                   !.at = "raised",
                                   !.out = m]

\* tasks.py:125-128
PollFetch ==
    /\ poller.loop = "pipeline"
    /\ poller.at = "fetch"
    /\ get_transcription_status(poller.clock)
    /\ UNCHANGED <<pipelineVars, routeVars, toolVars, indexFile, metaFile, calls>>

\* PollCheck with the status compared with a value the remote never reports
PollCheck_WrongLiteral ==
    /\ poller.loop = "pipeline"
    /\ poller.at = "check"
    /\ poller' = CASE poller.status = "Success" ->
                        [poller EXCEPT !.at = "returned", !.out = poller.status]
                   [] poller.status = "Failed" ->
                        [poller EXCEPT !.at = "raised",
                                       !.out = "Azure Speech falhou: " \o poller.error]
                   [] OTHER -> [poller EXCEPT !.at = "sleep"]
    /\ UNCHANGED <<pipelineVars, routeVars, toolVars, indexFile, metaFile, calls>>

\* tasks.py:140-144
PollCheck ==
    /\ poller.loop = "pipeline"
    /\ poller.at = "check"
    /\ poller' = CASE poller.status = "Succeeded" ->
                        [poller EXCEPT !.at = "returned", !.out = poller.status]
                   [] poller.status = "Failed" ->
                        [poller EXCEPT !.at = "raised",
                                       !.out = "Azure Speech falhou: " \o poller.error]
                   [] OTHER -> [poller EXCEPT !.at = "sleep"]
    /\ UNCHANGED <<pipelineVars, routeVars, toolVars, indexFile, metaFile, calls>>

\* PollSleep with the addition to elapsed left out
PollSleep_NoElapsed ==
    /\ poller.loop = "pipeline"
    /\ poller.at = "sleep"
    /\ poller' = [poller EXCEPT !.sleeps = @ + 1,
                                 !.at = "cond"]
    /\ UNCHANGED <<pipelineVars, routeVars, toolVars, indexFile, metaFile, calls>>

\* tasks.py:146-147  await asyncio.sleep(poll_interval); elapsed += poll_interval
PollSleep ==
    /\ poller.loop = "pipeline"
    /\ poller.at = "sleep"
    /\ poller' = [poller EXCEPT !.sleeps = @ + 1,
                                 !.elapsed = @ + poll_interval,
                                 !.at = "cond"]
    /\ UNCHANGED <<pipelineVars, routeVars, toolVars, indexFile, metaFile, calls>>

\* azure_speech.py:145-151  elapsed = time.time() - start_time; timeout check
WaitCond ==
    /\ poller.loop = "service"
    /\ poller.at = "cond"
    /\ poller' = IF poller.clock > max_wait_seconds
                 THEN [poller EXCEPT !.elapsed = poller.clock,
                                     !.at = "raised",
                                     !.out = "Job não completou em 3600 segundos"]
                 ELSE [poller EXCEPT !.elapsed = poller.clock,
                                     !.at = "fetch"]
    /\ UNCHANGED <<pipelineVars, routeVars, toolVars, indexFile, metaFile, calls>>

\* azure_speech.py:153-154
WaitFetch ==
    /\ poller.loop = "service"
    /\ poller.at = "fetch"
    /\ \E d \in FetchSeconds : get_transcription_status(poller.clock + d)
    /\ UNCHANGED <<pipelineVars, routeVars, toolVars, indexFile, metaFile, calls>>

\* azure_speech.py:161-176
WaitCheck ==
    /\ poller.loop = "service"
    /\ poller.at = "check"
    /\ poller' = CASE poller.status = "Succeeded" ->
                        [poller EXCEPT !.at = "returned", !.out = poller.status]
                   [] poller.status = "Failed" ->
                        [poller EXCEPT !.at = "raised",
                                       !.out = "Transcrição falhou: " \o poller.error]
                   [] OTHER -> [poller EXCEPT !.at = "sleep"]
    /\ UNCHANGED <<pipelineVars, routeVars, toolVars, indexFile, metaFile, calls>>

\* azure_speech.py:172,176  await asyncio.sleep(poll_interval)
WaitSleep ==
    /\ poller.loop = "service"
    /\ poller.at = "sleep"
    /\ poller' = [poller EXCEPT !.sleeps = @ + 1,
                                 !.clock = @ + wait_poll_interval,
                                 !.at = "cond"]
    /\ UNCHANGED <<pipelineVars, routeVars, toolVars, indexFile, metaFile, calls>>

PollNext ==
    \/ \E loop \in PollLoops : PollStart(loop)
    \/ PollCond
    \/ PollFetch
    \/ PollCheck
    \/ PollSleep
    \/ WaitCond
    \/ WaitFetch
    \/ WaitCheck
    \/ WaitSleep

\* A started loop is run to its end: every await of the loop returns (the
\* status request within its timeout, the sleep after its interval)
PollSpec == Init /\ [][PollNext]_vars /\ WF_vars(PollNext)

----------------------------------------------------------------------------
(* EmbeddingsService taken alone, one file access per step.  Two processes   *)
(* share the directory FAISS_PATH: the API server and the Celery worker.     *)
(* A chunk is named by the text it was cut from and its position in          *)
(* chunk_text of that text; a vector is named by the chunk it embeds.        *)

\* azure_openai.py:72  batch_size of generate_embeddings_batch
batch_size == 16
\* azure_openai.py:35  stop_after_attempt(3) of generate_embeddings
embedding_attempts == 3
\* config.py  MAX_CONTEXT_CHUNKS, the default of top_k
MAX_CONTEXT_CHUNKS == 5

\* Length of the long text: enough for more than one batch of chunks
LongLen == 30000
\* Most chunks the files of a job may hold after an update_index that is let
\* start
MaxStored == 2

\* The texts the callers pass: an empty one, the one-chunk text of the
\* pipeline, and one that is cut into more than batch_size chunks
DocIds == {"empty", "short", "long"}
DocText(d) ==
    CASE d = "empty" -> <<>>
      [] d = "short" -> SpeakerPrefix \o <<"1", ":", " ", "o", "i", ".">>
      [] d = "long" -> [i \in 1..LongLen |-> "a"]
DocChunks == [d \in DocIds |-> chunk_text(DocText(d))]

\* chunk_text(text), each chunk named by text and position
ChunkRefs(d) == [i \in 1..Len(DocChunks[d]) |-> <<d, i>>]

\* The embedding collaborator: the vector of a chunk
Embedding(c) == <<"vec", c>>
Embeddings(chunks) == [i \in 1..Len(chunks) |-> Embedding(chunks[i])]

\* generate_embeddings_batch: the number of requests for n texts
NumBatches(n) == (n + batch_size - 1) \div batch_size

\* Inner product of the normalized query vector with a stored vector, in
\* hundredths; several chunks share a score
InnerProduct(v) == (v[2][2] * 7) % 5

\* top_k values of a search request: absent, smaller and larger than an index
TopKs == {None, Some(1), Some(20)}

\* The service calls each process makes: routes chat.py and transcriptions.py
\* in the API server, process_transcription_task and cleanup_old_jobs_task in
\* the worker; update_index is offered to the API server
OpsOf(p) == IF p = "api" THEN {"exists", "build", "search", "update"}
                         ELSE {"exists", "build", "delete"}

Idling(p, op) == calls[p].at = "idle" /\ op \in OpsOf(p)
Enter(p, op, at, j) == [NoCall EXCEPT !.op = op, !.at = at, !.job = j]
RaiseIn(c, e) == [c EXCEPT !.at = "raised", !.err = e]

\* The call of process p is left for its caller's next call
Return(p) ==
    /\ calls[p].at \in {"returned", "raised"}
    /\ calls' = [calls EXCEPT ![p] = NoCall]
    /\ UNCHANGED <<pipelineVars, routeVars, toolVars, poller, indexFile, metaFile>>

\* embeddings.py:276-279
index_exists(p, j) ==
    /\ Idling(p, "exists")
    /\ calls' = [calls EXCEPT ![p] = [Enter(p, "exists", "returned", j)
                                        EXCEPT !.out = <<indexFile[j] # None>>]]
    /\ UNCHANGED <<pipelineVars, routeVars, toolVars, poller, indexFile, metaFile>>

\* embeddings.py:90-107  entry of create_index_for_job
create_index_for_job(p, j, d) ==
    /\ Idling(p, "build")
    /\ calls' = [calls EXCEPT ![p] = [Enter(p, "build", "chunk", j) EXCEPT !.doc = d]]
    /\ UNCHANGED <<pipelineVars, routeVars, toolVars, poller, indexFile, metaFile>>

\* embeddings.py:109-113  chunk the text; no chunk is an error
BuildChunk(p) ==
    /\ calls[p].at = "chunk"
    /\ LET chunks == ChunkRefs(calls[p].doc)
       IN  calls' = [calls EXCEPT ![p] =
                        IF chunks = <<>>
                        THEN RaiseIn(@, "Nenhum chunk gerado do texto")
                        ELSE [@ EXCEPT !.chunks = chunks, !.at = "embed"]]
    /\ UNCHANGED <<pipelineVars, routeVars, toolVars, poller, indexFile, metaFile>>

\* BuildEmbed with the index file written after each batch
BuildEmbed_SaveEachBatch(p) ==
    /\ calls[p].at = "embed"
    /\ LET c == calls[p]
           n == Len(c.chunks)
       IN  \/ /\ calls' = [calls EXCEPT ![p] =
                            [c EXCEPT !.embeds = @ + NumBatches(n),
                                      !.index = Some(Embeddings(c.chunks)),
                                      !.meta = Some([chunks |-> c.chunks, num_chunks |-> n]),
                                      !.at = "write_index"]]
              /\ UNCHANGED indexFile
           \/ \E b \in 1..NumBatches(n) :
              /\ calls' = [calls EXCEPT ![p] =
                            RaiseIn([c EXCEPT !.embeds = @ + b,
                                              !.writes = @ + (b - 1)], "APIConnectionError")]
              /\ indexFile' = IF b = 1 THEN indexFile
                              ELSE [indexFile EXCEPT ![c.job] =
                                      Some(Embeddings(SubSeq(c.chunks, 1, (b - 1) * batch_size)))]
    /\ UNCHANGED <<pipelineVars, routeVars, toolVars, poller, metaFile>>

\* embeddings.py:115-141 with azure_openai.py:84-107  one request per batch;
\* the first failing batch raises; with all vectors the index and the
\* metadata are prepared in memory
BuildEmbed(p) ==
    /\ calls[p].at = "embed"
    /\ LET c == calls[p]
           n == Len(c.chunks)
       IN  \/ /\ calls' = [calls EXCEPT ![p] =
                            [c EXCEPT !.embeds = @ + NumBatches(n),
                                      !.index = Some(Embeddings(c.chunks)),
                                      !.meta = Some([chunks |-> c.chunks, num_chunks |-> n]),
                                      !.at = "write_index"]]
              /\ UNCHANGED indexFile
           \/ \E b \in 1..NumBatches(n) :
              /\ calls' = [calls EXCEPT ![p] =
                            RaiseIn([c EXCEPT !.embeds = @ + b], "APIConnectionError")]
              /\ UNCHANGED indexFile
    /\ UNCHANGED <<pipelineVars, routeVars, toolVars, poller, metaFile>>

\* embeddings.py:304-308  faiss.write_index, or its exception
SaveIndexFile(p) ==
    /\ calls[p].at = "write_index"
    /\ \/ /\ indexFile' = [indexFile EXCEPT ![calls[p].job] = calls[p].index]
          /\ calls' = [calls EXCEPT ![p].writes = @ + 1, ![p].at = "write_meta"]
       \/ /\ calls' = [calls EXCEPT ![p] = RaiseIn(@, "OSError")]
          /\ UNCHANGED indexFile
    /\ UNCHANGED <<pipelineVars, routeVars, toolVars, poller, metaFile>>

\* embeddings.py:310-318  pickle.dump of the metadata, or its exception
SaveMetaFile(p) ==
    /\ calls[p].at = "write_meta"
    /\ \/ /\ metaFile' = [metaFile EXCEPT ![calls[p].job] = calls[p].meta]
          /\ calls' = [calls EXCEPT ![p].writes = @ + 1, ![p].at = "returned"]
       \/ /\ calls' = [calls EXCEPT ![p] = RaiseIn(@, "OSError")]
          /\ UNCHANGED metaFile
    /\ UNCHANGED <<pipelineVars, routeVars, toolVars, poller, indexFile>>

\* embeddings.py:153-172  entry of search
search(p, j, top_k) ==
    /\ Idling(p, "search")
    /\ calls' = [calls EXCEPT ![p] = [Enter(p, "search", "load_index", j) EXCEPT !.top_k = top_k]]
    /\ UNCHANGED <<pipelineVars, routeVars, toolVars, poller, indexFile, metaFile>>

\* LoadIndexFile with the query embedded before the index is looked up
LoadIndexFile_EmbedFirst(p) ==
    /\ calls[p].at = "load_index"
    /\ LET c == calls[p]
       IN  calls' = [calls EXCEPT ![p] =
                IF indexFile[c.job] # None
                THEN [c EXCEPT !.index = indexFile[c.job], !.at = "load_meta"]
                ELSE IF c.op = "search" THEN RaiseIn([c EXCEPT !.embeds = @ + 1], "Índice não encontrado")
                ELSE [c EXCEPT !.at = "chunk"]]
    /\ UNCHANGED <<pipelineVars, routeVars, toolVars, poller, indexFile, metaFile>>

\* embeddings.py:334-339 with 175-178 and 221-226  _load_index reads the index
\* file; without it search raises and update_index goes on as
\* create_index_for_job
LoadIndexFile(p) ==
    /\ calls[p].at = "load_index"
    /\ LET c == calls[p]
       IN  calls' = [calls EXCEPT ![p] =
                IF indexFile[c.job] # None
                THEN [c EXCEPT !.index = indexFile[c.job], !.at = "load_meta"]
                ELSE IF c.op = "search" THEN RaiseIn(c, "Índice não encontrado")
                ELSE [c EXCEPT !.at = "chunk"]]
    /\ UNCHANGED <<pipelineVars, routeVars, toolVars, poller, indexFile, metaFile>>

\* embeddings.py:341-349  _load_index reads the metadata file when there is one
LoadMetaFile(p) ==
    /\ calls[p].at = "load_meta"
    /\ calls' = [calls EXCEPT ![p].meta = metaFile[calls[p].job],
                              ![p].at = IF calls[p].op = "search" THEN "query" ELSE "append"]
    /\ UNCHANGED <<pipelineVars, routeVars, toolVars, poller, indexFile, metaFile>>

\* faiss IndexFlatIP.search: the k best (score, position) pairs, best first,
\* equal scores by ascending position; positions are 0-based and a result
\* that does not exist has position -1
RECURSIVE Nearest(_, _, _)
Nearest(vectors, k, taken) ==
    LET cand == (1..Len(vectors)) \ taken
    IN  IF k = 0 THEN <<>>
        ELSE IF cand = {} THEN <<[idx |-> -1, score |-> -1]>> \o Nearest(vectors, k - 1, taken)
        ELSE LET best == CHOOSE i \in cand : \A m \in cand :
                            \/ InnerProduct(vectors[i]) > InnerProduct(vectors[m])
                            \/ InnerProduct(vectors[i]) = InnerProduct(vectors[m]) /\ i <= m
             IN  <<[idx |-> best - 1, score |-> InnerProduct(vectors[best])]>>
                    \o Nearest(vectors, k - 1, taken \cup {best})

\* chunks[idx] of Python, for idx < len(chunks): a negative idx counts from
\* the end, and there is no item when that leaves the list
PyItem(chunks, idx) ==
    IF idx >= 0 THEN chunks[idx + 1]
    ELSE IF Len(chunks) + idx >= 0 THEN chunks[Len(chunks) + idx + 1]
    ELSE <<"IndexError">>

\* embeddings.py:190-201  the results loop
RECURSIVE Collect(_, _, _)
Collect(hits, chunks, i) ==
    IF i > Len(hits) THEN <<>>
    ELSE (IF hits[i].idx < Len(chunks)
          THEN <<[rank |-> i, chunk |-> PyItem(chunks, hits[i].idx),
                  score |-> hits[i].score, index |-> hits[i].idx]>>
          ELSE <<>>) \o Collect(hits, chunks, i + 1)

\* embeddings.py:170  top_k or settings.MAX_CONTEXT_CHUNKS
EffectiveTopK(top_k) == IF top_k = None \/ top_k = Some(0) THEN MAX_CONTEXT_CHUNKS ELSE top_k[1]

\* SearchResults without the clamp of top_k to index.ntotal
SearchResults_NoClamp(vectors, meta, top_k) ==
    Collect(Nearest(vectors, EffectiveTopK(top_k), {}),
            IF meta = None THEN <<>> ELSE meta[1].chunks, 1)

\* embeddings.py:188-205
SearchResults(vectors, meta, top_k) ==
    Collect(Nearest(vectors, Min(EffectiveTopK(top_k), Len(vectors)), {}),
            IF meta = None THEN <<>> ELSE meta[1].chunks, 1)

\* embeddings.py:180-205 with azure_openai.py:34-67  embed the query (up to
\* embedding_attempts requests), search, build the results
SearchQuery(p) ==
    /\ calls[p].at = "query"
    /\ \E failures \in 0..embedding_attempts :
        calls' = [calls EXCEPT ![p] =
            IF failures = embedding_attempts
            THEN RaiseIn([@ EXCEPT !.embeds = @ + failures], "RetryError")
            ELSE [@ EXCEPT !.embeds = @ + failures + 1,
                           !.out = SearchResults(calls[p].index[1], calls[p].meta, calls[p].top_k),
                           !.at = "returned"]]
    /\ UNCHANGED <<pipelineVars, routeVars, toolVars, poller, indexFile, metaFile>>

\* embeddings.py:207-221  entry of update_index
update_index(p, j, d) ==
    /\ Idling(p, "update")
    /\ indexFile[j] # None => Len(indexFile[j][1]) + Len(ChunkRefs(d)) <= MaxStored
    /\ metaFile[j] # None => Len(metaFile[j][1].chunks) + Len(ChunkRefs(d)) <= MaxStored
    /\ calls' = [calls EXCEPT ![p] = [Enter(p, "update", "load_index", j) EXCEPT !.doc = d]]
    /\ UNCHANGED <<pipelineVars, routeVars, toolVars, poller, indexFile, metaFile>>

\* UpdateAppend with the new vectors and chunks put in place of the loaded ones
UpdateAppend_Replace(p) ==
    /\ calls[p].at = "append"
    /\ LET c == calls[p]
           new_chunks == ChunkRefs(c.doc)
           n == Len(new_chunks)
       IN  IF n = 0 THEN calls' = [calls EXCEPT ![p] = RaiseIn(c, "IndexError")]
           ELSE \/ \E b \in 1..NumBatches(n) :
                      calls' = [calls EXCEPT ![p] =
                                  RaiseIn([c EXCEPT !.embeds = @ + b], "APIConnectionError")]
                \/ calls' = [calls EXCEPT ![p] =
                      IF c.meta = None
                      THEN RaiseIn([c EXCEPT !.embeds = @ + NumBatches(n)], "KeyError")
                      ELSE [c EXCEPT !.embeds = @ + NumBatches(n),
                                     !.chunks = new_chunks,
                                     !.index = Some(Embeddings(new_chunks)),
                                     !.meta = Some([chunks |-> new_chunks, num_chunks |-> n]),
                                     !.at = "write_index"]]
    /\ UNCHANGED <<pipelineVars, routeVars, toolVars, poller, indexFile, metaFile>>

\* embeddings.py:228-239  chunk and embed the new text, add the vectors to the
\* loaded index and the chunks to the loaded metadata
UpdateAppend(p) ==
    /\ calls[p].at = "append"
    /\ LET c == calls[p]
           new_chunks == ChunkRefs(c.doc)
           n == Len(new_chunks)
       IN  IF n = 0 THEN calls' = [calls EXCEPT ![p] = RaiseIn(c, "IndexError")]
           ELSE \/ \E b \in 1..NumBatches(n) :
                      calls' = [calls EXCEPT ![p] =
                                  RaiseIn([c EXCEPT !.embeds = @ + b], "APIConnectionError")]
                \/ calls' = [calls EXCEPT ![p] =
                      IF c.meta = None
                      THEN RaiseIn([c EXCEPT !.embeds = @ + NumBatches(n)], "KeyError")
                      ELSE [c EXCEPT !.embeds = @ + NumBatches(n),
                                     !.chunks = new_chunks,
                                     !.index = Some(c.index[1] \o Embeddings(new_chunks)),
                                     !.meta = Some([chunks |-> c.meta[1].chunks \o new_chunks,
                                                    num_chunks |-> Len(c.meta[1].chunks) + n]),
                                     !.at = "write_index"]]
    /\ UNCHANGED <<pipelineVars, routeVars, toolVars, poller, indexFile, metaFile>>

\* embeddings.py:248-260  entry of delete_index
delete_index(p, j) ==
    /\ Idling(p, "delete")
    /\ calls' = [calls EXCEPT ![p] = Enter(p, "delete", "remove_index", j)]
    /\ UNCHANGED <<pipelineVars, routeVars, toolVars, poller, indexFile, metaFile>>

\* embeddings.py:262-263, 272-274  the index file is removed when it exists;
\* an exception of os.remove ends the call with False
RemoveIndexFile(p) ==
    /\ calls[p].at = "remove_index"
    /\ \/ /\ indexFile' = [indexFile EXCEPT ![calls[p].job] = None]
          /\ calls' = [calls EXCEPT ![p].at = "remove_meta"]
       \/ /\ indexFile[calls[p].job] # None
          /\ calls' = [calls EXCEPT ![p].at = "returned", ![p].out = <<FALSE>>]
          /\ UNCHANGED indexFile
    /\ UNCHANGED <<pipelineVars, routeVars, toolVars, poller, metaFile>>

\* RemoveMetaFile calling os.remove without asking os.path.exists first
RemoveMetaFile_NoExistsCheck(p) ==
    /\ calls[p].at = "remove_meta"
    /\ \/ /\ metaFile[calls[p].job] # None
          /\ metaFile' = [metaFile EXCEPT ![calls[p].job] = None]
          /\ calls' = [calls EXCEPT ![p].at = "returned", ![p].out = <<TRUE>>]
       \/ /\ calls' = [calls EXCEPT ![p].at = "returned", ![p].out = <<FALSE>>]
          /\ UNCHANGED metaFile
    /\ UNCHANGED <<pipelineVars, routeVars, toolVars, poller, indexFile>>

\* embeddings.py:265-270, 272-274  the same for the metadata file
RemoveMetaFile(p) ==
    /\ calls[p].at = "remove_meta"
    /\ \/ /\ metaFile' = [metaFile EXCEPT ![calls[p].job] = None]
          /\ calls' = [calls EXCEPT ![p].at = "returned", ![p].out = <<TRUE>>]
       \/ /\ metaFile[calls[p].job] # None
          /\ calls' = [calls EXCEPT ![p].at = "returned", ![p].out = <<FALSE>>]
          /\ UNCHANGED metaFile
    /\ UNCHANGED <<pipelineVars, routeVars, toolVars, poller, indexFile>>

IndexNext ==
    \E p \in Callers :
        \/ \E j \in JobIds : index_exists(p, j)
        \/ \E j \in JobIds, d \in DocIds : create_index_for_job(p, j, d)
        \/ BuildChunk(p)
        \/ BuildEmbed(p)
        \/ SaveIndexFile(p)
        \/ SaveMetaFile(p)
        \/ \E j \in JobIds, k \in TopKs : search(p, j, k)
        \/ LoadIndexFile(p)
        \/ LoadMetaFile(p)
        \/ SearchQuery(p)
        \/ \E j \in JobIds, d \in DocIds : update_index(p, j, d)
        \/ UpdateAppend(p)
        \/ \E j \in JobIds : delete_index(p, j)
        \/ RemoveIndexFile(p)
        \/ RemoveMetaFile(p)
        \/ Return(p)

IndexSpec == Init /\ [][IndexNext]_vars

\* The calls of the service made one at a time: a call starts only when no
\* other process is in one
Alone(p) == \A q \in Callers \ {p} : calls[q].at = "idle"
SeqIndexNext ==
    \E p \in Callers :
        \/ \E j \in JobIds : Alone(p) /\ index_exists(p, j)
        \/ \E j \in JobIds, d \in DocIds : Alone(p) /\ create_index_for_job(p, j, d)
        \/ Alone(p) /\ BuildChunk(p)
        \/ Alone(p) /\ BuildEmbed(p)
        \/ Alone(p) /\ SaveIndexFile(p)
        \/ Alone(p) /\ SaveMetaFile(p)
        \/ \E j \in JobIds, k \in TopKs : Alone(p) /\ search(p, j, k)
        \/ Alone(p) /\ LoadIndexFile(p)
        \/ Alone(p) /\ LoadMetaFile(p)
        \/ Alone(p) /\ SearchQuery(p)
        \/ \E j \in JobIds, d \in DocIds : Alone(p) /\ update_index(p, j, d)
        \/ Alone(p) /\ UpdateAppend(p)
        \/ \E j \in JobIds : Alone(p) /\ delete_index(p, j)
        \/ Alone(p) /\ RemoveIndexFile(p)
        \/ Alone(p) /\ RemoveMetaFile(p)
        \/ Alone(p) /\ Return(p)

SeqIndexSpec == Init /\ [][SeqIndexNext]_vars

----------------------------------------------------------------------------
(* The generation calls of AzureOpenAIService taken alone: summarize,        *)
(* answer_question and generate_meeting_minutes under @retry of tenacity.   *)
(* gen.requests counts the calls of client.chat.completions.create, gen.log  *)
(* is the exception of each failed attempt, gen.slept the seconds tenacity   *)
(* waited between the attempts.                                              *)

\* azure_openai.py:111,179,297  wait_exponential(multiplier=1, min=2, max=10)
wait_multiplier == 1
wait_min == 2
wait_max == 10

GenOps == {"summarize", "answer_question", "generate_meeting_minutes"}

\* What the collaborator does with a request: it raises, or it returns a
\* message whose content is None, a text, or a JSON object
GenReplies == {"raise", "null", "text", "json"}
ReplyContent(reply) == IF reply = "json" THEN <<" ", "{", "}">> ELSE <<" ", "o", "k", " ">>

\* json.loads(content) succeeds
IsJson(content) == content = <<"{", "}">>

\* tenacity wait_exponential: multiplier * 2^(attempt_number - 1) kept
\* between min and max
WaitSeconds(attempt_number) ==
    LET exp == wait_multiplier * 2 ^ (attempt_number - 1)
        capped == IF exp < wait_max THEN exp ELSE wait_max
    IN  IF capped > wait_min THEN capped ELSE wait_min

\* azure_openai.py:113,181,299  a caller enters one of the three functions;
\* tenacity starts the first attempt
GenCall(op) ==
    /\ gen.at = "idle"
    /\ gen' = [GenIdle EXCEPT !.op = op, !.at = "request", !.attempt = 1]
    /\ UNCHANGED <<pipelineVars, routeVars, serviceVars, chunker, diar>>

\* azure_openai.py:154-175, 235-253, 362-392  one execution of the function
\* body: the request, then .strip() of the content (and json.loads in
\* generate_meeting_minutes); an exception leaves the body.  In
\* generate_meeting_minutes `import json` (379) makes json a local of the
\* function, so that an exception before that line is replaced by the
\* UnboundLocalError of `except json.JSONDecodeError` (386)
GenAttempt ==
    /\ gen.at = "request"
    /\ \E reply \in GenReplies :
        LET minutes == gen.op = "generate_meeting_minutes"
            content == Strip(ReplyContent(reply))
            error == IF reply = "raise"
                        THEN (IF minutes THEN "UnboundLocalError" ELSE "APIConnectionError")
                     ELSE IF reply = "null"
                        THEN (IF minutes THEN "UnboundLocalError" ELSE "AttributeError")
                     ELSE IF minutes /\ ~IsJson(content) THEN "ValueError"
                     ELSE ""
        IN  gen' = IF error = ""
                   THEN [gen EXCEPT !.requests = @ + 1, !.out = Some(content),
                                    !.at = "returned"]
                   ELSE [gen EXCEPT !.requests = @ + 1, !.log = Append(@, error),
                                    !.at = "failed"]
    /\ UNCHANGED <<pipelineVars, routeVars, serviceVars, chunker, diar>>

\* GenRetry giving up one attempt early
GenRetry_GiveUpEarly ==
    /\ gen.at = "failed"
    /\ gen' = IF gen.attempt < gen_attempts - 1
              THEN [gen EXCEPT !.attempt = @ + 1,
                               !.slept = @ + WaitSeconds(gen.attempt),
                               !.at = "request"]
              ELSE [gen EXCEPT !.at = "raised", !.out = Some(<<"RetryError">>)]
    /\ UNCHANGED <<pipelineVars, routeVars, serviceVars, chunker, diar>>

\* azure_openai.py:109-112, 177-180, 295-298  tenacity after a failed attempt:
\* stop_after_attempt(3) raises RetryError, else it sleeps and calls again
GenRetry ==
    /\ gen.at = "failed"
    /\ gen' = IF gen.attempt < gen_attempts
              THEN [gen EXCEPT !.attempt = @ + 1,
                               !.slept = @ + WaitSeconds(gen.attempt),
                               !.at = "request"]
              ELSE [gen EXCEPT !.at = "raised", !.out = Some(<<"RetryError">>)]
    /\ UNCHANGED <<pipelineVars, routeVars, serviceVars, chunker, diar>>

\* The call has returned or raised; the next one can be made
GenDone ==
    /\ gen.at \in {"returned", "raised"}
    /\ gen' = GenIdle
    /\ UNCHANGED <<pipelineVars, routeVars, serviceVars, chunker, diar>>

GenNext ==
    \/ \E op \in GenOps : GenCall(op)
    \/ GenAttempt
    \/ GenRetry
    \/ GenDone

GenSpec == Init /\ [][GenNext]_vars

----------------------------------------------------------------------------
(* chunk_text taken alone, with its arguments chunk_size and overlap, one    *)
(* iteration of its loop per step.  chunker.windows is the text[start:end]   *)
(* of each iteration after the sentence cut, chunker.chunks the list chunks. *)

\* Greatest length of a text, greatest chunk_size in tokens (overlap goes one
\* further), and the iterations of the loop that are followed
MaxTextLen == 10
MaxTokens == 2
MaxChunks == 6

\* A text of n symbols with ". " at offset k, or without it for k = -1
Template(n, k) ==
    [i \in 1..n |-> IF k >= 0 /\ i = k + 1 THEN "."
                    ELSE IF k >= 0 /\ i = k + 2 THEN " "
                    ELSE "a"]
ChunkTexts == {Template(n, k) : n \in 0..MaxTextLen, k \in (-1)..(MaxTextLen - 2)}
ChunkSizes == {None} \cup {Some(n) : n \in 1..MaxTokens}
Overlaps == {None} \cup {Some(n) : n \in 1..(MaxTokens + 1)}

\* `x or default` of Python for an optional integer
OrDefault(x, default) == IF x = None \/ x = Some(0) THEN default ELSE x[1]

\* embeddings.py:52-61  the arguments and the locals before the loop
ChunkCall(text, chunk_size, overlap) ==
    /\ chunker.at = "idle"
    /\ chunker' = [ChunkIdle EXCEPT
                      !.at = "loop",
                      !.text = text,
                      !.chars_per_chunk = OrDefault(chunk_size, CHUNK_SIZE_TOKENS) * 4,
                      !.chars_overlap = OrDefault(overlap, CHUNK_OVERLAP_TOKENS) * 4]
    /\ UNCHANGED <<pipelineVars, routeVars, serviceVars, gen, diar>>

\* ChunkIterate starting the next window one symbol after the cut
ChunkIterate_SkipAhead ==
    /\ chunker.at = "loop"
    /\ chunker.start < Len(chunker.text)
    /\ Len(chunker.chunks) < MaxChunks
    /\ LET text == chunker.text
           start == chunker.start
           end0 == start + chunker.chars_per_chunk
           chunk0 == Slice(text, start, end0)
           last_period == RFind(chunk0, <<".", " ">>)
           cut == end0 < Len(text) /\ 10 * last_period > 7 * chunker.chars_per_chunk
           chunk == IF cut THEN Slice(chunk0, 0, last_period + 1) ELSE chunk0
           end == IF cut THEN start + last_period + 1 ELSE end0
       IN  chunker' = [chunker EXCEPT !.chunks = Append(@, Strip(chunk)),
                                      !.windows = Append(@, [start |-> start, end |-> end]),
                                      !.start = end + 1]
    /\ UNCHANGED <<pipelineVars, routeVars, serviceVars, gen, diar>>

\* embeddings.py:63-84  one iteration of `while start < text_len`
ChunkIterate ==
    /\ chunker.at = "loop"
    /\ chunker.start < Len(chunker.text)
    /\ Len(chunker.chunks) < MaxChunks
    /\ LET text == chunker.text
           start == chunker.start
           end0 == start + chunker.chars_per_chunk
           chunk0 == Slice(text, start, end0)
           last_period == RFind(chunk0, <<".", " ">>)
           cut == end0 < Len(text) /\ 10 * last_period > 7 * chunker.chars_per_chunk
           chunk == IF cut THEN Slice(chunk0, 0, last_period + 1) ELSE chunk0
           end == IF cut THEN start + last_period + 1 ELSE end0
           shifted == end - chunker.chars_overlap
           next == IF shifted <= 0 THEN end ELSE shifted
       IN  chunker' = [chunker EXCEPT !.chunks = Append(@, Strip(chunk)),
                                      !.windows = Append(@, [start |-> start, end |-> end]),
                                      !.start = next]
    /\ UNCHANGED <<pipelineVars, routeVars, serviceVars, gen, diar>>

\* embeddings.py:63, 86-88  the loop condition fails and chunks is returned
ChunkReturn ==
    /\ chunker.at = "loop"
    /\ ~(chunker.start < Len(chunker.text))
    /\ chunker' = [chunker EXCEPT !.at = "returned"]
    /\ UNCHANGED <<pipelineVars, routeVars, serviceVars, gen, diar>>

\* The caller has the list; the next call can be made
ChunkDone ==
    /\ chunker.at = "returned"
    /\ chunker' = ChunkIdle
    /\ UNCHANGED <<pipelineVars, routeVars, serviceVars, gen, diar>>

ChunkNext ==
    \/ \E text \in ChunkTexts, chunk_size \in ChunkSizes, overlap \in Overlaps :
            ChunkCall(text, chunk_size, overlap)
    \/ ChunkIterate
    \/ ChunkReturn
    \/ ChunkDone

ChunkSpec == Init /\ [][ChunkNext]_vars

----------------------------------------------------------------------------
(* parse_transcription_with_diarization taken alone.  Seconds are counted   *)
(* in tenths, and the duration strings of the inputs have at most one       *)
(* decimal, so that the sums of _parse_duration are exact.                  *)

\* Greatest number of recognizedPhrases of a result
MaxPhrases == 3

S(str) == [i \in 1..Len(str) |-> str[i]]
PT0S == <<"P", "T", "0", "S">>
Digits == {"0", "1", "2", "3", "4", "5", "6", "7", "8", "9"}
DigitVal == [c \in Digits |-> CHOOSE n \in 0..9 :
                <<"0", "1", "2", "3", "4", "5", "6", "7", "8", "9">>[n + 1] = c]

\* The length of the longest run of symbols of `set` in s from offset pos
RECURSIVE RunLen(_, _, _)
RunLen(s, pos, set) ==
    IF pos < Len(s) /\ s[pos + 1] \in set THEN 1 + RunLen(s, pos + 1, set) ELSE 0

\* int() of a run of digits
RECURSIVE IntOf(_)
IntOf(ds) == IF ds = <<>> THEN 0
             ELSE IntOf(SubSeq(ds, 1, Len(ds) - 1)) * 10 + DigitVal[ds[Len(ds)]]

\* The exception of float(), told from every number of seconds
ValueError == -1

\* float() of a run of digits and points, in tenths; it raises ValueError
\* for a run with no digit or with more than one point
FloatOf(run) ==
    LET points == {i \in 1..Len(run) : run[i] = "."}
    IN  IF Cardinality(points) > 1 \/ Cardinality(points) = Len(run) THEN ValueError
        ELSE IF points = {} THEN IntOf(run) * 10
        ELSE LET at == CHOOSE i \in points : TRUE
                 frac == SubSeq(run, at + 1, Len(run))
             IN  IntOf(SubSeq(run, 1, at - 1)) * 10
                    + (IF frac = <<>> THEN 0 ELSE DigitVal[frac[1]])

\* azure_speech.py:340-361  _parse_duration: 0 for a missing or empty string,
\* for "PT0S" and for a string that does not start with PT; else the groups
\* of PT(?:(\d+)H)?(?:(\d+)M)?(?:([\d.]+)S)?, each one optional
parse_duration(duration_str) ==
    IF duration_str = None \/ duration_str = Some(<<>>) \/ duration_str = Some(PT0S) THEN 0
    ELSE LET str == duration_str[1]
         IN  IF ~MatchAt(str, <<"P", "T">>, 0) THEN 0
             ELSE LET hn == RunLen(str, 2, Digits)
                      hasH == hn > 0 /\ MatchAt(str, <<"H">>, 2 + hn)
                      hours == IF hasH THEN IntOf(Slice(str, 2, 2 + hn)) ELSE 0
                      p1 == IF hasH THEN 2 + hn + 1 ELSE 2
                      mn == RunLen(str, p1, Digits)
                      hasM == mn > 0 /\ MatchAt(str, <<"M">>, p1 + mn)
                      minutes == IF hasM THEN IntOf(Slice(str, p1, p1 + mn)) ELSE 0
                      p2 == IF hasM THEN p1 + mn + 1 ELSE p1
                      sn == RunLen(str, p2, Digits \cup {"."})
                      hasS == sn > 0 /\ MatchAt(str, <<"S">>, p2 + sn)
                      seconds == IF hasS THEN FloatOf(Slice(str, p2, p2 + sn)) ELSE 0
                  IN  IF seconds = ValueError THEN ValueError
                      ELSE hours * 36000 + minutes * 600 + seconds

\* Results of the speech service: the phrases, each with its speaker (None
\* when the key is missing), offset, duration and hypotheses, best first
Hypotheses == { <<>>,
                <<[display |-> "a", confidence |-> 90]>>,
                <<[display |-> "b", confidence |-> 80], [display |-> "c", confidence |-> 95]>> }
Phrase == [speaker : {None, Some(1)},
           offset : {Some(PT0S), Some(S(<<"P", "T", "1", ".", "5", "S">>)),
                     Some(S(<<"P", "T", "1", ".", "2", ".", "3", "S">>))},
           duration : {Some(S(<<"P", "T", "1", "M", "2", "S">>))},
           nBest : Hypotheses]
RECURSIVE SeqsUpTo(_, _)
SeqsUpTo(set, n) ==
    IF n = 0 THEN {<<>>}
    ELSE LET shorter == SeqsUpTo(set, n - 1)
         IN  shorter \cup {Append(q, x) : q \in {r \in shorter : Len(r) = n - 1}, x \in set}
\* A result without combined text and duration, and one with both
TranscriptionJsons ==
    [combinedRecognizedPhrases : {<<>>}, duration : {None},
     recognizedPhrases : SeqsUpTo(Phrase, MaxPhrases)]
    \cup
    [combinedRecognizedPhrases : {<<[display |-> "a b"]>>},
     duration : {Some(S(<<"P", "T", "1", "H", "2", "S">>))},
     recognizedPhrases : SeqsUpTo(Phrase, MaxPhrases)]

\* azure_speech.py:280-285  result before the loop
EmptyResult == [full_text |-> "", speakers |-> <<>>, duration_seconds |-> 0,
                phrases |-> <<>>, raised |-> ""]

\* ParsePhrase keeping a phrase without hypotheses, with an empty text
ParsePhrase_NoSkip(result, phrase) ==
    LET speaker == IF phrase.speaker = None THEN 0 ELSE phrase.speaker[1]
        offset == parse_duration(phrase.offset)
        duration == parse_duration(phrase.duration)
        nbest == phrase.nBest
    IN  IF offset = ValueError \/ duration = ValueError
        THEN [result EXCEPT !.raised = "ValueError"]
        ELSE LET text == IF nbest = <<>> THEN "" ELSE nbest[1].display
                 phrase_data == [speaker |-> speaker, text |-> text,
                                 start_time |-> offset, end_time |-> offset + duration,
                                 duration |-> duration,
                                 confidence |-> IF nbest = <<>> THEN 0 ELSE nbest[1].confidence]
                 known == {k \in 1..Len(result.speakers) :
                                result.speakers[k].speaker_id = speaker}
             IN  [result EXCEPT
                    !.phrases = Append(@, phrase_data),
                    !.speakers =
                        IF known = {}
                        THEN Append(@, [speaker_id |-> speaker, texts |-> <<text>>])
                        ELSE LET k == CHOOSE m \in known : \A o \in known : m <= o
                             IN  [@ EXCEPT ![k].texts = Append(@, text)]]

\* azure_speech.py:299-336  one iteration of the loop over recognizedPhrases:
\* offset and duration are parsed first, a phrase without hypotheses is
\* skipped, else the first hypothesis makes the phrase and its text goes to
\* the first entry of its speaker, made at the end of the list when missing
ParsePhrase(result, phrase) ==
    LET speaker == IF phrase.speaker = None THEN 0 ELSE phrase.speaker[1]
        offset == parse_duration(phrase.offset)
        duration == parse_duration(phrase.duration)
        nbest == phrase.nBest
    IN  IF offset = ValueError \/ duration = ValueError
        THEN [result EXCEPT !.raised = "ValueError"]
        ELSE IF nbest = <<>> THEN result
        ELSE LET text == nbest[1].display
                 phrase_data == [speaker |-> speaker, text |-> text,
                                 start_time |-> offset, end_time |-> offset + duration,
                                 duration |-> duration,
                                 confidence |-> nbest[1].confidence]
                 known == {k \in 1..Len(result.speakers) :
                                result.speakers[k].speaker_id = speaker}
             IN  [result EXCEPT
                    !.phrases = Append(@, phrase_data),
                    !.speakers =
                        IF known = {}
                        THEN Append(@, [speaker_id |-> speaker, texts |-> <<text>>])
                        ELSE LET k == CHOOSE m \in known : \A o \in known : m <= o
                             IN  [@ EXCEPT ![k].texts = Append(@, text)]]

\* azure_speech.py:299  the loop; an exception ends it
RECURSIVE ParsePhrases(_, _, _)
ParsePhrases(result, phrases, i) ==
    IF i > Len(phrases) \/ result.raised # "" THEN result
    ELSE ParsePhrases(ParsePhrase(result, phrases[i]), phrases, i + 1)

\* azure_speech.py:264-338  the call: full_text, duration_seconds, the loop
parse_transcription_with_diarization(transcription_json) ==
    /\ diar.at = "idle"
    /\ LET combined_phrases == transcription_json.combinedRecognizedPhrases
           full_text == IF combined_phrases # <<>> THEN combined_phrases[1].display ELSE ""
           duration_seconds == parse_duration(transcription_json.duration)
           result == IF duration_seconds = ValueError
                     THEN [EmptyResult EXCEPT !.raised = "ValueError"]
                     ELSE ParsePhrases([EmptyResult EXCEPT
                                            !.full_text = full_text,
                                            !.duration_seconds = duration_seconds],
                                       transcription_json.recognizedPhrases, 1)
       IN  diar' = [at |-> IF result.raised = "" THEN "returned" ELSE "raised",
                    input |-> transcription_json.recognizedPhrases,
                    out |-> IF result.raised = "" THEN result ELSE EmptyResult]
    /\ UNCHANGED <<pipelineVars, routeVars, serviceVars, gen, chunker>>

\* The caller has the result or the exception; the next call can be made
ParseDone ==
    /\ diar.at \in {"returned", "raised"}
    /\ diar' = ParseIdle
    /\ UNCHANGED <<pipelineVars, routeVars, serviceVars, gen, chunker>>

ParseNext ==
    \/ /\ diar.at = "idle"
       /\ \E transcription_json \in TranscriptionJsons :
                parse_transcription_with_diarization(transcription_json)
    \/ ParseDone

ParseSpec == Init /\ [][ParseNext]_vars

----------------------------------------------------------------------------
(* Properties of the job lifecycle *)

Terminal == {"COMPLETED", "FAILED"}
Running == {"presign", "create", "poll", "download", "store", "index"}

\* C1: over the whole life of a job the only status changes are
\* QUEUED->PROCESSING, PROCESSING->COMPLETED and PROCESSING->FAILED; in
\* particular a job that has become COMPLETED or FAILED never changes status
\* again.  The formula states that last clause: no step changes the status of
\* a job that is in a terminal status.
C1_TerminalStatusIsFinal ==
    [][\A j \in JobIds :
        (Found(j) /\ jobs[j].status \in Terminal /\ j \in DOMAIN jobs')
            => jobs'[j].status = jobs[j].status]_vars

\* C2: when the pipeline has caught an exception while the job row exists,
\* the row is committed FAILED with error_message the text of that exception
\* and completed_at set, before the retry is requested and while it is pending.
C2_FailedBeforeRetry ==
    \A j \in JobIds :
        (pc \in {"retry", "retry_wait"} /\ Found(j))
            => /\ jobs[j].status = "FAILED"
               /\ jobs[j].error_message = Some(exc.msg)
               /\ jobs[j].completed_at # None

C2_Witness ==
    \E j \in JobIds :
        /\ pc = "retry"
        /\ Found(j)
        /\ exc.kind = "EmbeddingError"

\* C3: the pipeline is executed at most 1 + max_retries times for a job, and
\* when the last permitted execution has failed too the job is FAILED with
\* error_message the text of the last execution's exception.
C3_BoundedExecutions ==
    /\ Now <= 1 + max_retries
    /\ \A j \in JobIds :
        (pc = "gave_up" /\ Found(j))
            => /\ jobs[j].status = "FAILED"
               /\ jobs[j].error_message = Some(exc.msg)

C3_Witness ==
    \E j \in JobIds :
        /\ pc = "gave_up"
        /\ Found(j)
        /\ Now = 1 + max_retries
        /\ exc.kind = "PollTimeout"

\* C4: when an earlier execution has failed on the remote-speech collaborator
\* and a later execution has run every step without error, the job is
\* COMPLETED with progress 1.0.
SpeechTransient == {Some(m) : m \in HttpErrors} \cup {Some("RetryError[HTTPStatusError]")}

C4_CompletedAfterRetry ==
    \A j \in JobIds :
        (pc = "done" /\ Found(j) /\ retries > 0 /\ jobs[j].error_message \in SpeechTransient)
            => /\ jobs[j].status = "COMPLETED"
               /\ jobs[j].progress = P_COMPLETED

C4_Witness ==
    \E j \in JobIds :
        /\ pc = "done"
        /\ Found(j)
        /\ retries = 1
        /\ jobs[j].error_message = Some("503 Service Unavailable")
        /\ jobs[j].status = "COMPLETED"

\* C5: a remote status of Failed, or the polling timeout, is terminal for the
\* job: the job is FAILED and the pipeline is not run again for it.  A job
\* whose recorded error is that of a remote Failed or of the timeout is
\* FAILED, and no execution of the pipeline is under way for it.
TerminalRemote == { Some("Azure Speech falhou: None"),
                    Some("Job não completou em 3600 segundos") }

C5_TerminalRemoteIsFinal ==
    \A j \in JobIds :
        (Found(j) /\ jobs[j].error_message \in TerminalRemote)
            => /\ jobs[j].status = "FAILED"
               /\ pc \notin Running

\* C6: a precondition failure of a worker task (job id not found, zero chunks
\* produced for indexing) is rejected at once and never makes the task be
\* retried: no retry is pending for an exception of that kind.
Precondition == {"JobNotFound", "NoChunks"}

C6_PreconditionNotRetried ==
    ~(pc = "retry_wait" /\ exc.kind \in Precondition)

\* C7: progress lies in [0.0, 1.0], and every commit that leaves the job in a
\* non-terminal status leaves progress at least as large as the value
\* committed before (a commit that marks the job FAILED does not touch
\* progress, so that value is the last one committed while non-terminal).
C7_ProgressMonotone ==
    [][\A j \in JobIds :
        (j \in DOMAIN jobs')
            => /\ jobs'[j].progress \in 0..Scale
               /\ (Found(j) /\ jobs'[j].status \notin Terminal)
                    => jobs'[j].progress >= jobs[j].progress]_vars

\* C8: after every step, a job whose progress is 1.0 has status COMPLETED, and
\* either its progress was 1.0 before the step or the step is the one that
\* made its status COMPLETED.
C8_FullProgressOnlyCompleted ==
    [][\A j \in JobIds :
        (j \in DOMAIN jobs' /\ jobs'[j].progress = P_COMPLETED)
            => /\ jobs'[j].status = "COMPLETED"
               /\ Found(j)
               /\ (jobs[j].progress = P_COMPLETED \/ jobs[j].status # "COMPLETED")]_vars

C8_Witness ==
    \E j \in JobIds :
        /\ Found(j)
        /\ jobs[j].progress = P_COMPLETED
        /\ retries = 2

\* C9: the derived artifacts of a job (transcript text, duration, edited
\* text, speaker-name overrides, summary, meeting minutes) are populated only
\* once the job is COMPLETED.
C9_ArtifactsOnlyWhenCompleted ==
    \A j \in JobIds :
        (Found(j) /\ jobs[j].status # "COMPLETED")
            => /\ jobs[j].transcription_text = None
               /\ jobs[j].duration_seconds = None
               /\ jobs[j].edited_transcription = None
               /\ jobs[j].speaker_names = None
               /\ jobs[j].summary = None
               /\ jobs[j].meeting_minutes = None

\* C10: a job whose status is FAILED has a non-empty error_message.
C10_FailedHasMessage ==
    \A j \in JobIds :
        (Found(j) /\ jobs[j].status = "FAILED")
            => /\ jobs[j].error_message # None
               /\ jobs[j].error_message # Some("")

\* C11: after a job has reached a terminal status no step changes its status,
\* progress, completion time, error message, transcript text or duration; and
\* a step of the pipeline never changes the summary, the meeting minutes, the
\* speaker-name overrides or the edited text of a job.
C11_TerminalFrame ==
    [][\A j \in JobIds :
        (Found(j) /\ j \in DOMAIN jobs')
            => /\ jobs[j].status \in Terminal
                    => /\ jobs'[j].status = jobs[j].status
                       /\ jobs'[j].progress = jobs[j].progress
                       /\ jobs'[j].completed_at = jobs[j].completed_at
                       /\ jobs'[j].error_message = jobs[j].error_message
                       /\ jobs'[j].transcription_text = jobs[j].transcription_text
                       /\ jobs'[j].duration_seconds = jobs[j].duration_seconds
               /\ pc' # pc
                    => /\ jobs'[j].summary = jobs[j].summary
                       /\ jobs'[j].meeting_minutes = jobs[j].meeting_minutes
                       /\ jobs'[j].speaker_names = jobs[j].speaker_names
                       /\ jobs'[j].edited_transcription = jobs[j].edited_transcription]_vars

\* C12: within an execution every commit of a progress checkpoint follows the
\* commit of the checkpoint before it: 0.2 follows 0.1, 0.3 follows 0.2 and
\* leaves a remote job id, the polling values grow from 0.3 up to at most 0.8,
\* 0.85 follows a polling value and leaves the parsed result, 0.9 follows 0.85
\* and leaves both result files in storage, and the commit that marks the job
\* COMPLETED with 1.0 follows 0.9 and leaves the index built in this step from
\* the parsed text.
C12_StepsInOrder ==
    [][\A j \in JobIds :
        (Found(j) /\ j \in DOMAIN jobs')
            => LET p == jobs[j].progress
                   q == jobs'[j].progress
               IN  /\ (q # p /\ q = P_PROCESSING) => jobs'[j].status = "PROCESSING"
                   /\ (q # p /\ q = P_PRESIGNED) => p = P_PROCESSING
                   /\ (q # p /\ q = P_CREATED) => p = P_PRESIGNED /\ jobs'[j].azure_job_id = Some(Now)
                   /\ (q # p /\ q > P_CREATED /\ q <= P_POLL_CAP)
                        => p >= P_CREATED /\ p < q /\ jobs[j].azure_job_id = Some(Now)
                   /\ (q # p /\ q = P_DOWNLOADED)
                        => p >= P_CREATED /\ p <= P_POLL_CAP /\ parsed' # None
                   /\ (q # p /\ q = P_STORED)
                        => /\ p = P_DOWNLOADED
                           /\ {<<j, "transcription.json">>, <<j, "transcription.txt">>} \subseteq results'
                   /\ (jobs'[j].status = "COMPLETED" /\ jobs[j].status # "COMPLETED")
                        => /\ p = P_STORED
                           /\ q = P_COMPLETED
                           /\ jobs[j].status = "PROCESSING"
                           /\ j \in DOMAIN faiss'
                           /\ faiss'[j] = BuiltIndex(chunk_text(parsed[1].full_text))
                   /\ q \in {p, P_PROCESSING, P_PRESIGNED, P_DOWNLOADED, P_STORED, P_COMPLETED}
                            \cup (P_CREATED..P_POLL_CAP)]_vars

C12_Witness ==
    \E j \in JobIds :
        /\ pc = "done"
        /\ Found(j)
        /\ jobs[j].status = "COMPLETED"
        /\ retries = 0
        /\ j \in DOMAIN faiss

\* C15: a transport failure of a single status fetch is retried inside the
\* poller and does not by itself end the polling loop or fail the execution:
\* the only exceptions that leave the polling step are those of a remote
\* Failed status and of the timeout.
C15_StatusFetchRetried ==
    [][(pc = "poll" /\ pc' = "except") => exc'.kind \in {"RemoteFailed", "PollTimeout"}]_vars

----------------------------------------------------------------------------
(* Properties of the polling loops *)

PollEnded == poller.at \in {"returned", "raised"}
TimedOut == poller.at = "raised" /\ poller.out = "Job não completou em 3600 segundos"

FetchLimit ==
    IF poller.loop = "pipeline"
    THEN (max_wait + poll_interval - 1) \div poll_interval
    ELSE max_wait_seconds \div wait_poll_interval + 1

C14_PollingTerminates ==
    /\ [](poller.fetches <= FetchLimit)
    /\ []((poller.at = "raised" /\ poller.status \notin {"", "Failed"}) => TimedOut)
    /\ (poller.at # "idle") ~> PollEnded

C14_Witness ==
    /\ poller.loop = "pipeline"
    /\ TimedOut
    /\ poller.status = "Deleted"
    /\ poller.fetches = (max_wait + poll_interval - 1) \div poll_interval

----------------------------------------------------------------------------
(* Properties of the index files *)

\* C16: a build that fails because chunking yields no chunk or because a batch
\* of the embedding request fails has written nothing: the step that raises
\* leaves both files as they are, and the call has made no write before it.
C16_FailedBuildWritesNothing ==
    [][\A p \in Callers :
        (calls[p].at \in {"chunk", "embed"} /\ calls'[p].at = "raised")
            => /\ indexFile' = indexFile
               /\ metaFile' = metaFile
               /\ calls'[p].writes = 0
               /\ calls'[p].err \in {"Nenhum chunk gerado do texto", "APIConnectionError"}]_vars

C16_Witness ==
    \E p \in Callers, j \in JobIds :
        /\ calls[p].op = "build"
        /\ calls[p].job = j
        /\ calls[p].at = "raised"
        /\ calls[p].err = "APIConnectionError"
        /\ calls[p].embeds = 2
        /\ indexFile[j] # None
        /\ metaFile[j] # None

\* C17: at every observation point the persisted pair of a job is either
\* absent or the index and the metadata of one and the same generation: the
\* vectors of the index file are the embeddings of the chunks of the metadata
\* file, in order.
SameGeneration(j) ==
    /\ indexFile[j] # None
    /\ metaFile[j] # None
    /\ indexFile[j][1] = Embeddings(metaFile[j][1].chunks)

C17_PairAtomic ==
    \A j \in JobIds :
        \/ indexFile[j] = None /\ metaFile[j] = None
        \/ SameGeneration(j)

\* C18: at most one index mutation (build, update or delete) for a given job
\* id is in progress at any time, across all callers.
Mutating(p, j) ==
    /\ calls[p].job = j
    /\ calls[p].op \in {"build", "update", "delete"}
    /\ calls[p].at \notin {"idle", "returned", "raised"}

C18_OneMutationPerJob ==
    \A j \in JobIds : Cardinality({p \in Callers : Mutating(p, j)}) <= 1

\* C19: when no index file is persisted for a job id, the probe index_exists
\* answers false, and search raises the not-found error at its lookup, having
\* made no request to the embedding collaborator.
C19_NoIndexNotFound ==
    [][\A p \in Callers, j \in JobIds :
        /\ (calls[p].at = "idle" /\ calls'[p].op = "exists" /\ calls'[p].job = j
                /\ indexFile[j] = None)
            => calls'[p].out = <<FALSE>>
        /\ (calls[p].op = "search" /\ calls[p].at = "load_index" /\ calls[p].job = j
                /\ indexFile[j] = None /\ calls'[p] # calls[p])
            => /\ calls'[p].at = "raised"
               /\ calls'[p].err = "Índice não encontrado"
               /\ calls'[p].embeds = 0]_vars

C19_Witness ==
    \E p \in Callers, j \in JobIds :
        /\ calls[p].op = "search"
        /\ calls[p].job = j
        /\ calls[p].at = "raised"
        /\ calls[p].err = "Índice não encontrado"
        /\ indexFile[j] = None
        /\ metaFile[j] # None

Appended(s, t, k) == Len(s) = Len(t) + k /\ SubSeq(s, 1, Len(t)) = t

C22_DeleteIdempotent ==
    [][\A p \in Callers :
        LET c == calls[p]
            j == c.job
        IN  /\ (c.op = "delete" /\ c.at = "remove_index" /\ calls'[p].at = "remove_meta")
               => (indexFile'[j] = None /\ metaFile' = metaFile)
            /\ (c.op = "delete" /\ c.at = "remove_meta" /\ calls'[p].at = "returned"
                    /\ calls'[p].out = <<TRUE>>)
               => (metaFile'[j] = None /\ indexFile' = indexFile)
            /\ (c.op = "delete" /\ c.at = "remove_index" /\ indexFile[j] = None
                    /\ calls'[p] # c)
               => (calls'[p].at = "remove_meta" /\ UNCHANGED <<indexFile, metaFile>>)
            /\ (c.op = "delete" /\ c.at = "remove_meta" /\ metaFile[j] = None
                    /\ calls'[p] # c)
               => (calls'[p].out = <<TRUE>> /\ UNCHANGED <<indexFile, metaFile>>)]_vars

C22_Witness ==
    \E p \in Callers :
        /\ calls[p].op = "delete"
        /\ calls[p].at = "returned"
        /\ calls[p].out = <<TRUE>>
        /\ indexFile[calls[p].job] = None
        /\ metaFile[calls[p].job] = None

----------------------------------------------------------------------------
(* Properties of the remote job of an execution *)

\* C26: the create step of every pipeline execution leaves a new remote job,
\* other than the one the row named before, in the local azure_job_id and in
\* the row; every status request and every download of the execution asks
\* for that remote job, and an execution asks for none before its create step.
C26_PollsOwnRemoteJob ==
    [][\A j \in JobIds :
        /\ (pc = "create" /\ pc' = "poll")
            => /\ speech'.local # None
               /\ speech'.local # jobs[j].azure_job_id
               /\ jobs'[j].azure_job_id = speech'.local
        /\ (pc \in {"queued", "retry_wait"} /\ pc' # pc) => speech' = NoSpeech
        /\ speech'.local # speech.local => (pc \in {"queued", "retry_wait", "create"})
        /\ speech'.requested \in {None, speech'.local}
        /\ (speech'.requested # None /\ Found(j) /\ j \in DOMAIN jobs'
                /\ pc' \in {"poll", "download", "store", "index"})
            => speech'.requested = jobs'[j].azure_job_id]_vars

C26_Witness ==
    \E j \in JobIds :
        /\ Found(j)
        /\ retries >= 1
        /\ pc = "store"
        /\ speech.local = Some(Now)
        /\ speech.requested = speech.local
        /\ jobs[j].azure_job_id = speech.local

----------------------------------------------------------------------------
(* Properties of the chat route *)

\* C23: a chat request of the owner on a COMPLETED job without an index makes
\* one fallback build.  When the build fails the response is 500, no search
\* and no generation request was made and no index is left; when it succeeds
\* the index built from the job's text is stored and is the one searched.
C23_OneFallbackBuild ==
    [][\A j \in JobIds :
        (Found(j) /\ jobs[j].status = "COMPLETED" /\ j \notin DOMAIN faiss
            /\ chat' # chat /\ chat'.code # 403)
        => /\ chat'.build \in {"ok", "failed"}
           /\ chat'.build = "failed"
                => /\ chat'.code = 500
                   /\ chat'.search = "none"
                   /\ chat'.answer = "none"
                   /\ chat'.requests = 0
                   /\ faiss' = faiss
           /\ chat'.build = "ok"
                => /\ j \in DOMAIN faiss'
                   /\ faiss'[j] = BuiltIndex(chunk_text(
                                     get_transcription_text_with_custom_names(jobs[j])))
                   /\ chat'.searched = Some(faiss'[j])
                   /\ chat'.search # "none"]_vars

C23_Witness ==
    \E j \in JobIds :
        /\ Found(j)
        /\ jobs[j].status = "COMPLETED"
        /\ j \notin DOMAIN faiss
        /\ chat.build = "failed"
        /\ chat.code = 500
        /\ chat.search = "none"

\* C24: a chat request never changes the job record, and the failure of its
\* fallback build, of its search or of its answer generation is the response
\* 500 with a detail.
C24_ChatFailureLeavesJob ==
    [][chat' # chat
        => /\ jobs' = jobs
           /\ (chat'.build = "failed" \/ chat'.search \in {"failed", "empty"}
                    \/ chat'.answer = "failed")
                => (chat'.code = 500 /\ chat'.detail # "")]_vars

C24_Witness ==
    \E j \in JobIds :
        /\ Found(j)
        /\ jobs[j].status = "COMPLETED"
        /\ chat.answer = "failed"
        /\ chat.requests = gen_attempts
        /\ chat.code = 500

----------------------------------------------------------------------------
(* Properties of the generation calls *)

\* C27: summarize, answer_question and generate_meeting_minutes call the
\* generation collaborator again after a failed attempt, at most gen_attempts
\* times in all; the call returns the result of the first attempt that
\* succeeds, without a further request, and raises once gen_attempts
\* attempts have failed.
C27_GenerationRetried ==
    [][/\ gen'.requests <= gen_attempts
       /\ (gen.at = "request" /\ gen' # gen) => gen'.requests = gen.requests + 1
       /\ (gen.at = "failed" /\ gen' # gen)
            => gen'.at = (IF gen.requests < gen_attempts THEN "request" ELSE "raised")
       /\ gen'.at = "returned"
            => /\ gen'.out # None
               /\ gen'.requests = Len(gen'.log) + 1
       /\ gen'.at = "raised"
            => /\ gen'.requests = gen_attempts
               /\ Len(gen'.log) = gen_attempts
       /\ (gen.at = "returned" /\ gen' # gen) => gen' = GenIdle]_vars

C27_Witness ==
    /\ gen.op = "generate_meeting_minutes"
    /\ gen.at = "returned"
    /\ gen.requests = gen_attempts
    /\ gen.log = <<"UnboundLocalError", "ValueError">>

----------------------------------------------------------------------------
(* Properties of chunk_text *)

\* C28: in every call of chunk_text with positive chunk_size and overlap each
\* iteration of the loop starts its window after the start of the one before,
\* so that the loop ends.
C28_StartAdvances ==
    [][(chunker.at = "loop" /\ chunker'.at = "loop"
            /\ Len(chunker'.windows) = Len(chunker.windows) + 1)
        => chunker'.start > chunker.start]_vars

\* The part of the text the windows up to the i-th have covered, when each
\* window starts at or before the end of what is covered
RECURSIVE Regions(_, _, _, _)
Regions(text, windows, i, covered) ==
    IF i > Len(windows) THEN <<>>
    ELSE LET w == windows[i]
             from == IF w.start > covered THEN w.start ELSE covered
             upto == IF w.end > covered THEN w.end ELSE covered
         IN  Slice(text, from, upto) \o Regions(text, windows, i + 1, upto)

\* C29: in every call of chunk_text each chunk is the trimmed window of its
\* iteration and has at most chars_per_chunk symbols, the first window starts
\* at 0 and each next one at or before the end of the one before; when the
\* call returns the last window has reached the end of the text and the
\* regions the windows add one after the other make up the text.
C29_WindowsCoverText ==
    LET c == chunker
        n == Len(c.windows)
    IN  c.at \in {"loop", "returned"}
        => /\ Len(c.chunks) = n
           /\ \A i \in 1..n :
                /\ c.chunks[i] = Strip(Slice(c.text, c.windows[i].start, c.windows[i].end))
                /\ Len(c.chunks[i]) <= c.chars_per_chunk
                /\ c.windows[i].end - c.windows[i].start <= c.chars_per_chunk
                /\ c.windows[i].start < c.windows[i].end
           /\ n > 0 => c.windows[1].start = 0
           /\ \A i \in 2..n : c.windows[i].start <= c.windows[i - 1].end
           /\ c.at = "returned"
                => /\ (n = 0) = (c.text = <<>>)
                   /\ n > 0 => c.windows[n].end >= Len(c.text)
                   /\ Regions(c.text, c.windows, 1, 0) = c.text

C29_Witness ==
    /\ chunker.at = "returned"
    /\ Len(chunker.text) = MaxTextLen
    /\ chunker.chars_per_chunk = 8
    /\ Len(chunker.windows) >= 3
    /\ chunker.windows[1].end = 7
    /\ chunker.windows[2].start = 3

----------------------------------------------------------------------------
(* Properties of the diarization parser *)

\* The positions of the input phrases that have a hypothesis, in input order
RECURSIVE WithHypothesis(_, _)
WithHypothesis(phrases, i) ==
    IF i > Len(phrases) THEN <<>>
    ELSE (IF phrases[i].nBest # <<>> THEN <<i>> ELSE <<>>) \o WithHypothesis(phrases, i + 1)

SpeakerOf(phrase) == IF phrase.speaker = None THEN 0 ELSE phrase.speaker[1]

\* The texts of the phrases of speaker id, in order
RECURSIVE TextsOf(_, _, _)
TextsOf(phrases, id, i) ==
    IF i > Len(phrases) THEN <<>>
    ELSE (IF phrases[i].speaker = id THEN <<phrases[i].text>> ELSE <<>>)
            \o TextsOf(phrases, id, i + 1)

FirstOf(phrases, id) == CHOOSE i \in 1..Len(phrases) :
                            /\ phrases[i].speaker = id
                            /\ \A k \in 1..(i - 1) : phrases[k].speaker # id

\* C30: the result of parse_transcription_with_diarization has one phrase for
\* each input phrase with at least one hypothesis and for no other, in input
\* order, with the text of the first hypothesis, start_time the offset and
\* end_time the offset plus the duration; speakers has one entry for each
\* speaker of these phrases, in the order of their first phrase, with the
\* texts of the speaker's phrases in input order.
C30_PhrasesAndSpeakers ==
    diar.at = "returned"
    => LET in == diar.input
           kept == WithHypothesis(in, 1)
           out == diar.out.phrases
           speakers == diar.out.speakers
       IN  /\ Len(out) = Len(kept)
           /\ \A k \in 1..Len(out) :
                /\ out[k].speaker = SpeakerOf(in[kept[k]])
                /\ out[k].text = in[kept[k]].nBest[1].display
                /\ out[k].start_time = parse_duration(in[kept[k]].offset)
                /\ out[k].end_time = parse_duration(in[kept[k]].offset)
                                        + parse_duration(in[kept[k]].duration)
           /\ {speakers[a].speaker_id : a \in 1..Len(speakers)}
                = {out[k].speaker : k \in 1..Len(out)}
           /\ \A a, b \in 1..Len(speakers) :
                a < b => /\ speakers[a].speaker_id # speakers[b].speaker_id
                         /\ FirstOf(out, speakers[a].speaker_id)
                                < FirstOf(out, speakers[b].speaker_id)
           /\ \A a \in 1..Len(speakers) :
                speakers[a].texts = TextsOf(out, speakers[a].speaker_id, 1)

C30_Witness ==
    /\ diar.at = "returned"
    /\ Len(diar.input) = 3
    /\ diar.input[1].nBest # <<>>
    /\ diar.input[2].nBest = <<>>
    /\ Len(diar.input[3].nBest) = 2
    /\ diar.input[1].speaker # diar.input[3].speaker
    /\ Len(diar.out.phrases) = 2
    /\ Len(diar.out.speakers) = 2
    /\ diar.out.phrases[2].start_time = 15

----------------------------------------------------------------------------
(* Properties of _parse_duration, under ParseSpec.                          *)

\* Every duration string the last call of the parser was given: the
\* result's own and the offset and duration of every phrase it went through
DurationsParsed ==
    {diar.input[i].offset : i \in 1..Len(diar.input)}
        \cup {diar.input[i].duration : i \in 1..Len(diar.input)}

\* C31: _parse_duration never raises: a call of the parser, which parses the
\* offset and the duration of every phrase, never ends with an exception,
\* and every string it was given has a number of seconds, 0 when malformed.
C31_ParseDurationNeverRaises ==
    /\ diar.at # "raised"
    /\ \A d \in DurationsParsed : parse_duration(d) # ValueError

----------------------------------------------------------------------------
(* Properties of the routes, under RouteSpec.                               *)

\* C32: every job-scoped route refuses a caller who is not the owner of the
\* job: the response to such a request is 403 (404 when there is no such
\* job) and tells nothing of the job, and the request changes no job, no
\* index, no stored result and enqueues no task.
C32_OnlyTheOwner ==
    [][(http' # http /\ ~http'.is_owner)
        => /\ http'.code = IF http'.job_id \in DOMAIN jobs THEN 403 ELSE 404
           /\ http'.body = None
           /\ UNCHANGED <<jobs, faiss, results, sumTask, minTask, summaryTasks>>]_vars

\* A rename by another user was refused and the names are not set
C32_Witness ==
    /\ http.route = "update_speaker_names"
    /\ ~http.is_owner
    /\ http.code = 403
    /\ jobs[OtherJob].status = "COMPLETED"
    /\ jobs[OtherJob].speaker_names = None

\* The routes that read the text, the index or an artifact made from them
CompletedOnly == {"chat_with_transcription", "get_summary", "generate_summary",
                  "get_meeting_minutes", "generate_meeting_minutes",
                  "download_meeting_minutes_docx", "get_transcription",
                  "download_transcription"}

\* C34: the chat, summary, meeting-minutes and transcription read routes
\* refuse the owner's request with 400 unless the job is COMPLETED: for a job
\* that is QUEUED, PROCESSING or FAILED they tell nothing, search and build
\* no index, ask for no answer and enqueue no generation.
C34_CompletedOnly ==
    [][(/\ http' # http
        /\ http'.route \in CompletedOnly
        /\ http'.is_owner
        /\ http'.job_id \in DOMAIN jobs
        /\ jobs[http'.job_id].status # "COMPLETED")
        => /\ http'.code = 400
           /\ http'.body = None
           /\ chat'.build = "none" /\ chat'.search = "none" /\ chat'.answer = "none"
           /\ UNCHANGED <<jobs, faiss, sumTask, minTask, summaryTasks>>]_vars

\* The owner asked for the summary of a job in execution and was refused
C34_Witness ==
    /\ http.route = "generate_summary"
    /\ http.is_owner
    /\ http.code = 400
    /\ jobs[OtherJob].status = "PROCESSING"
    /\ \A t \in TaskIds : summaryTasks[t].state = "none"

\* C37: a rename of the owner succeeds and commits the names whether the
\* rebuild succeeds or not; a rebuild that succeeds replaces the index of the
\* job: the stored chunks are then exactly those of the job's current text
\* (the edited one if there is one, else the original) with the names put
\* in, as many vectors as chunks, and no other index is touched.
C37_RenameReplacesIndex ==
    [][(http' # http /\ http'.route = "update_speaker_names" /\ http'.is_owner)
        => LET j == http'.job_id
           IN  /\ http'.code = 200
               /\ jobs'[j].speaker_names # None
               /\ jobs' = [jobs EXCEPT ![j].speaker_names = jobs'[j].speaker_names]
               /\ \/ UNCHANGED faiss
                  \/ faiss' = (j :> BuiltIndex(chunk_text(
                                    get_transcription_text_with_custom_names(jobs'[j]))))
                                @@ faiss]_vars

\* The index was rebuilt by a rename after an edit: its chunks are those of
\* the edited text with the names, none is of the text indexed before
C37_Witness ==
    /\ http.route = "update_speaker_names"
    /\ http.code = 200
    /\ jobs[OtherJob].edited_transcription # None
    /\ jobs[OtherJob].speaker_names # None
    /\ faiss[OtherJob].chunks
            = chunk_text(get_transcription_text_with_custom_names(jobs[OtherJob]))
    /\ \A i \in 1..Len(faiss[OtherJob].chunks) :
            \A k \in 1..Len(chunk_text(OtherText)) :
                faiss[OtherJob].chunks[i] # chunk_text(OtherText)[k]

----------------------------------------------------------------------------
(* Properties of the summary, under SummarySpec.                            *)

\* C33: a request for the summary of a job that has one returns the stored
\* summary with cached = true, enqueues no task and leaves it as it is; and a
\* stored summary is replaced only after delete_summary has cleared it: no
\* step, of a route or of a task, turns a stored summary into another one.
C33_StoredSummaryKept ==
    [][\A j \in DOMAIN jobs :
          jobs[j].summary # None =>
              /\ jobs'[j].summary \in {jobs[j].summary, None}
              /\ (http' # http /\ http'.route = "generate_summary" /\ http'.code = 202)
                    => /\ http'.body = Some([Told EXCEPT !.summary = jobs[j].summary,
                                                         !.cached = TRUE])
                       /\ UNCHANGED <<jobs, summaryTasks>>]_vars

----------------------------------------------------------------------------
(* Properties of cleanup_old_jobs_task, under Spec.                         *)

\* Positions at which an execution of the pipeline is running, is about to
\* ask for its retry, or its message waits in the queue
ExecutionPending == Running \cup {"queued", "except", "retry", "retry_wait"}

\* C35: cleanup_old_jobs_task removes only jobs in a terminal status, and
\* never one for which an execution of the pipeline is running or pending, a
\* FAILED job that awaits its retry included: a step that removes a row
\* removes one that is COMPLETED or FAILED at a time when no execution of the
\* pipeline is running or waiting for it.
C35_CleanupSparesPending ==
    [][\A j \in DOMAIN jobs :
          j \notin DOMAIN jobs'
              => /\ jobs[j].status \in Terminal
                 /\ pc \notin ExecutionPending]_vars

----------------------------------------------------------------------------
(* Properties of the edits, under ChatSpec.                                 *)

\* C36: update_transcription leaves the persisted index of the job as it
\* is: a step that changes the edited text changes no index, and a chat
\* request that finds an index searches that index as it is stored, whatever
\* the text of the job has become since.
C36_EditKeepsIndex ==
    [][\A j \in DOMAIN jobs :
          /\ (j \in DOMAIN jobs'
                /\ jobs'[j].edited_transcription # jobs[j].edited_transcription)
                => UNCHANGED faiss
          /\ (chat' # chat /\ chat'.searched # None /\ j \in DOMAIN faiss)
                => chat'.searched = Some(faiss[j]) /\ UNCHANGED faiss]_vars

\* After an edit the chat was answered from the chunks of the text indexed
\* before it, which are not those of the job's text
C36_Witness ==
    /\ Found("J1")
    /\ jobs["J1"].edited_transcription # None
    /\ jobs["J1"].transcription_text # None
    /\ "J1" \in DOMAIN faiss
    /\ faiss["J1"].chunks = chunk_text(jobs["J1"].transcription_text[1])
    /\ faiss["J1"].chunks # chunk_text(get_transcription_text_with_custom_names(jobs["J1"]))
    /\ chat.code = 200
    /\ chat.searched = Some(faiss["J1"])

----------------------------------------------------------------------------
(* Properties of the index files under calls made one at a time,            *)
(* SeqIndexSpec.                                                            *)

\* C38: after any sequence of build, update and delete calls that run one at
\* a time, a job has no persisted index, or its index holds as many vectors
\* as the stored chunk list has chunks and as num_chunks says, vector i being
\* the embedding of chunk i.  Stated when no call is under way.
C38_CountsAgree ==
    (\A p \in Callers : calls[p].at \in {"idle", "returned", "raised"})
        => \A j \in JobIds :
              \/ indexFile[j] = None
              \/ /\ metaFile[j] # None
                 /\ Len(indexFile[j][1]) = Len(metaFile[j][1].chunks)
                 /\ Len(indexFile[j][1]) = metaFile[j][1].num_chunks
                 /\ indexFile[j][1] = Embeddings(metaFile[j][1].chunks)

----------------------------------------------------------------------------
(* Properties of the pipeline for an empty transcript, under Spec.          *)

NoChunks == Raised("NoChunks", "Nenhum chunk gerado do texto")

\* C39: an execution of the pipeline whose parsed text is empty does not make
\* the job COMPLETED: its index-build step raises the empty-input error,
\* after the parsed result was uploaded, and builds no index; the except
\* clause then marks the job FAILED with that error, and when the retries are
\* exhausted the execution is the last one and leaves the job FAILED.
C39_EmptyTextNeverCompleted ==
    [][\A j \in JobIds :
          /\ (pc = "index" /\ parsed[1].full_text = <<>> /\ pc' # pc)
                => /\ pc' = "except"
                   /\ exc' = NoChunks
                   /\ {<<j, "transcription.json">>, <<j, "transcription.txt">>}
                            \subseteq results
                   /\ UNCHANGED <<jobs, faiss>>
          /\ (pc = "except" /\ exc = NoChunks /\ pc' # pc /\ Found(j))
                => /\ jobs'[j].status = "FAILED"
                   /\ jobs'[j].error_message = Some(NoChunks.msg)
          /\ (pc = "retry" /\ exc = NoChunks /\ pc' # pc)
                => pc' = IF retries < max_retries THEN "retry_wait" ELSE "gave_up"
          /\ (pc' = "gave_up" /\ exc' = NoChunks /\ j \in DOMAIN jobs')
                => jobs'[j].status = "FAILED"]_vars

\* The fourth execution has failed on an empty text and no retry is left
C39_Witness ==
    /\ pc = "gave_up"
    /\ exc = NoChunks
    /\ retries = max_retries
    /\ Found("J1")
    /\ jobs["J1"].status = "FAILED"
    /\ jobs["J1"].error_message = Some(NoChunks.msg)
    /\ jobs["J1"].transcription_text = None
    /\ <<"J1", "transcription.json">> \in results
    /\ "J1" \notin DOMAIN faiss

----------------------------------------------------------------------------
(* Properties of the marks of a failure, under Spec.                        *)

\* C40: the pipeline never clears error_message or completed_at: once set
\* they are set in every later state of the row, while a retry is PROCESSING
\* too; the step that makes the job COMPLETED writes the time of the success
\* into completed_at and leaves error_message as the earlier failure set it.
C40_FailureMarksStay ==
    [][\A j \in DOMAIN jobs \cap DOMAIN jobs' :
          /\ jobs[j].error_message # None => jobs'[j].error_message # None
          /\ jobs[j].completed_at # None => jobs'[j].completed_at # None
          /\ (jobs[j].status # "COMPLETED" /\ jobs'[j].status = "COMPLETED")
                => /\ jobs'[j].error_message = jobs[j].error_message
                   /\ jobs'[j].completed_at = Some(Now)
          /\ (jobs[j].status # "PROCESSING" /\ jobs'[j].status = "PROCESSING")
                => /\ jobs'[j].error_message = jobs[j].error_message
                   /\ jobs'[j].completed_at = jobs[j].completed_at]_vars

\* A retry has made the job COMPLETED and the text of the earlier failure is
\* still on the row
C40_Witness ==
    /\ Found("J1")
    /\ jobs["J1"].status = "COMPLETED"
    /\ retries > 0
    /\ jobs["J1"].error_message # None
    /\ jobs["J1"].completed_at = Some(Now)

====
